---- MODULE Spec2Model ----
(***************************************************************************)
(* TrashTV Production Hub (src/index.tsx): the App component (hub view),   *)
(* the Setup component and the ProjectDetail component, as state machines. *)
(*                                                                         *)
(* Component state hooks are the variables.  Every event handler, effect   *)
(* and promise continuation is one action: JavaScript runs each of them to *)
(* completion, and a handler that awaits is split at the await.  A control *)
(* can be used only in the view that renders it, so the user actions are   *)
(* guarded by View and by the control's disabled attribute.                *)
(*                                                                         *)
(* Strings are TLA+ strings.  NULL stands for null and undefined; Truthy   *)
(* is JavaScript's truthiness on the values the model uses.                *)
(***************************************************************************)
EXTENDS Integers, Sequences, FiniteSets, TLC

VARIABLES
    \* ---- App (hub) state, src/index.tsx:450-481
    tasks,          \* useState([...19 tasks...])
    error,          \* useState(null): the hub error
    activeTab,      \* useState('jobs')
    selectedTask,   \* useState(null)
    activeFilter,   \* useState('all')
    gapiReady,      \* useState(false)
    isSignedIn,     \* useState(false)
    spreadsheetId,  \* useState(null)
    tokenClient,    \* useState(null): TRUE when a token client is held
    newTaskInput,   \* useState(''): the text of the add-task form
    isLoading,      \* useState(false): the add-task request is awaited
    \* ---- the environment of App
    storage,        \* localStorage['spreadsheetId'], NULL when the key is absent
    bootPc,         \* "mount": effects not run; "init": initializeApis awaits; "done"
    authPending,    \* token requests issued by requestAccessToken and not answered
    extractPending, \* the generateContent call of handleAddTask is not answered
    rendered,       \* the <ul class="task-list"> of the last render of the jobs tab
    \* ---- ProjectDetail state, src/index.tsx:61-76
    detail,         \* the state hooks of the mounted ProjectDetail, as a record
    net,            \* the requests ProjectDetail issued that are not answered
    \* ---- the gapi client and the spreadsheet behind it
    gapi,           \* token: the token gapi.client holds; sheet: the rows of the
                    \* selected task's tab from row 2 on; writes: the
                    \* values.update calls that are not answered
    \* ---- history
    lastEvent       \* the handler that ran last, with its input

addVars == <<newTaskInput, isLoading, extractPending>>

hubVars == <<tasks, error, activeTab, selectedTask, activeFilter, gapiReady,
             isSignedIn, spreadsheetId, tokenClient, storage, bootPc,
             authPending, rendered, addVars>>

detailVars == <<detail, net>>

vars == <<hubVars, detailVars, gapi, lastEvent>>

NULL == "null"

Truthy(v) == v # NULL /\ v # ""

\* a handler that ran without an alert(), and one that raised alert(text)
Event(op, arg) == [op |-> op, arg |-> arg, alert |-> NULL]

Alerted(op, arg, text) == [op |-> op, arg |-> arg, alert |-> text]

(***************************************************************************)
(* Bounds of the model.                                                    *)
(***************************************************************************)
\* token requests in flight at once (each click on the enabled button issues one)
MaxAuthPending == 2
\* length of the task lists the list specification draws
MaxListLen == 4

(***************************************************************************)
(* Texts typed by the user, and String.prototype.trim on them.             *)
(***************************************************************************)
IdInputs == {"", " ", "sheetA", " sheetA ", "sheetB"}

Trim(s) ==
    CASE s = " " -> ""
      [] s = " sheetA " -> "sheetA"
      [] OTHER -> s

(***************************************************************************)
(* The seed task list, src/index.tsx:450-470.  A task keeps the fields the *)
(* hub reads: name, priority, assignee, status, dueDate, and startDate,    *)
(* which it sets (notes are never read).  Task is a task with startDate:   *)
(* null.                                                                   *)
(***************************************************************************)
Task(n, p, a, s, d) ==
    [name |-> n, priority |-> p, assignee |-> a, status |-> s, dueDate |-> d,
     startDate |-> NULL]

\* the task t with startDate: sd
Started(t, sd) == [t EXCEPT !.startDate = sd]

TT == "Taylor Trash"
JESS == "jess@trashtv.productions"
SAMMY == "sammy@trashtv.productions"

SeedTasks == <<
    Started(Task("Chai x Pasty GRWM", "High Priority", TT, "In Progress", "2025-10-24"),
            "2025-10-20"),
    Started(Task("Taylor RPDR Audition Tape", "High Priority", TT, "In Progress", "2025-10-27"),
            "2025-10-20"),
    Task("TrashTV Logo Design", "High Priority", TT, "In Progress", "2025-10-24"),
    Task("Follow up with National Lottery Grant", "High Priority", TT, "In Progress", NULL),
    Task("Follow up with ITV Grant", "High Priority", TT, "Todo", NULL),
    Task("Access to Work Headphones for Jess", "High Priority", TT, "Todo", NULL),
    Started(Task("Pasty Oversize Photoshoot", "Low Priority", SAMMY, "Todo", "2025-10-24"),
            "2025-10-24"),
    Task("The Gold Rush Pitch Sizzle Reel", "Low Priority", SAMMY, "In Progress", "2025-11-28"),
    Task("Pasty Dragumentary", "Low Priority", JESS, "Todo", "2025-11-27"),
    Task("Sweet Tea x Jan podcast content", "Low Priority", JESS, "Todo", "2025-11-27"),
    Task("DragCon 2025 Interviews", "Low Priority", SAMMY, "In Progress", "2026-01-10"),
    Task("Sweet Tea x Michael Marouli YT content", "Low Priority", JESS, "Todo", NULL),
    Task("Sweet Tea x Bobby Summers YT content", "Low Priority", SAMMY, "In Progress", NULL),
    Task("Sweet Tea x Lawrence Chaney YT content", "Low Priority", JESS, "Todo", NULL),
    Task("Follow up on FSB Grant", "Low Priority", TT, "Todo", NULL),
    Task("Follow up with BFi Grant", "Low Priority", TT, "Todo", NULL),
    Task("Chai x Pasty 'Hot Ones'", "Mid-level Priority", JESS, "Todo", "2025-10-27"),
    Task("Anita Piss Trashy Takeover video", "Mid-level Priority", SAMMY, "In Progress", NULL),
    Task("Follow up with Tottenham Grant", "Mid-level Priority", TT, "Todo", NULL) >>

(***************************************************************************)
(* The view App renders, src/index.tsx:655-683: a chain of early returns.  *)
(***************************************************************************)
ViewSetupBeforeSignIn ==
    IF ~gapiReady THEN "Initializing"
    ELSE IF ~Truthy(spreadsheetId) THEN "NeedsSetup"
    ELSE IF ~isSignedIn THEN "SignedOut"
    ELSE IF selectedTask # NULL THEN "TaskDetail"
    ELSE "TaskList"

View ==
    IF ~gapiReady THEN "Initializing"
    ELSE IF ~isSignedIn THEN "SignedOut"
    ELSE IF ~Truthy(spreadsheetId) THEN "NeedsSetup"
    ELSE IF selectedTask # NULL THEN "TaskDetail"
    ELSE "TaskList"

(***************************************************************************)
(* The numbers the sort comparator computes with: finite integers,         *)
(* +Infinity, -Infinity and NaN.                                           *)
(***************************************************************************)
Fin(n) == [k |-> "fin", v |-> n]
PosInf == [k |-> "inf", v |-> 0]
NegInf == [k |-> "ninf", v |-> 0]
NaN == [k |-> "nan", v |-> 0]

\* x - y in IEEE arithmetic, for x in the finite numbers, +Infinity and NaN
Minus(x, y) ==
    IF x.k = "nan" \/ y.k = "nan" THEN NaN
    ELSE IF x.k = "inf" /\ y.k = "inf" THEN NaN
    ELSE IF x.k = "inf" THEN PosInf
    ELSE IF y.k = "inf" THEN NegInf
    ELSE Fin(x.v - y.v)

(***************************************************************************)
(* new Date(d + 'T00:00:00').getTime(), src/index.tsx:743: the local       *)
(* midnight of an ISO date (here the day as the number YYYYMMDD, which     *)
(* orders as the timestamps do), and NaN for a text that is no date.       *)
(***************************************************************************)
DateTable ==
    [d \in {"2025-10-24", "2025-10-27", "2025-11-27", "2025-11-28", "2026-01-10"} |->
        CASE d = "2025-10-24" -> 20251024
          [] d = "2025-10-27" -> 20251027
          [] d = "2025-11-27" -> 20251127
          [] d = "2025-11-28" -> 20251128
          [] d = "2026-01-10" -> 20260110]

GetTime(d) == IF d \in DOMAIN DateTable THEN Fin(DateTable[d]) ELSE NaN

\* a.dueDate ? new Date(...).getTime() : Infinity, src/index.tsx:743-744
DateKey(t) == IF Truthy(t.dueDate) THEN GetTime(t.dueDate) ELSE PosInf

\* the comparator's return value, src/index.tsx:742-746
Comparator(a, b) == Minus(DateKey(a), DateKey(b))

\* Array.prototype.sort reads the comparator's result through SortCompare: a NaN
\* result counts as +0.  -1, 0 or 1: a before b, no order, b before a.
SortCompare(a, b) ==
    LET v == Comparator(a, b)
    IN  CASE v.k = "nan" -> 0
          [] v.k = "inf" -> 1
          [] v.k = "ninf" -> -1
          [] OTHER -> IF v.v < 0 THEN -1 ELSE IF v.v > 0 THEN 1 ELSE 0

Elems(s) == {s[i] : i \in 1..Len(s)}

\* one element of s for every dueDate in s: the comparator reads nothing else
DateRepresentatives(s) ==
    [d \in {t.dueDate : t \in Elems(s)} |-> CHOOSE t \in Elems(s) : t.dueDate = d]

\* ECMAScript's "consistent comparison function" for the elements of s
ConsistentComparator(s) ==
    LET rep == DateRepresentatives(s)
        D == DOMAIN rep
        v == [a \in D, b \in D |-> SortCompare(rep[a], rep[b])]
    IN  /\ \A a, b \in D :
               /\ v[a, a] = 0
               /\ v[a, b] = 0 => v[b, a] = 0
               /\ v[a, b] < 0 => v[b, a] > 0
               /\ v[a, b] > 0 => v[b, a] < 0
        /\ \A a, b, c \in D :
               /\ v[a, b] = 0 /\ v[b, c] = 0 => v[a, c] = 0
               /\ v[a, b] < 0 /\ v[b, c] < 0 => v[a, c] < 0
               /\ v[a, b] > 0 /\ v[b, c] > 0 => v[a, c] > 0

\* x put into the sorted list s after every element it does not precede
RECURSIVE InsertSorted(_, _)
InsertSorted(x, s) ==
    IF s = <<>> THEN <<x>>
    ELSE IF SortCompare(x, Head(s)) < 0 THEN <<x>> \o s
    ELSE <<Head(s)>> \o InsertSorted(x, Tail(s))

\* the stable sort of s: the one order a consistent comparator allows
RECURSIVE StableSort(_)
StableSort(s) ==
    IF s = <<>> THEN <<>>
    ELSE InsertSorted(s[Len(s)], StableSort(SubSeq(s, 1, Len(s) - 1)))

\* the orders of n positions, for the lengths the list specification draws
Orders ==
    [n \in 0..MaxListLen |->
        {f \in [1..n -> 1..n] : \A i, j \in 1..n : f[i] = f[j] => i = j}]

SeqPermutations(s) == {[i \in 1..Len(s) |-> s[f[i]]] : f \in Orders[Len(s)]}

\* Array.prototype.sort (stable since ES2019): with a comparator that is not
\* consistent on the elements, the order is implementation-defined.
SortOutcomes(s) ==
    IF ConsistentComparator(s) THEN {StableSort(s)} ELSE SeqPermutations(s)

\* the four filter buttons, src/index.tsx:591-596
FilterValues == {"all", TT, JESS, SAMMY}

\* tasks.filter(task => activeFilter === 'all' || task.assignee === activeFilter)
FilterTasks(ts, f) ==
    LET Keep(t) == f = "all" \/ t.assignee = f
    IN  SelectSeq(ts, Keep)

\* the filtered and sorted seed list under each filter, computed once
SeedRenders == [f \in FilterValues |-> SortOutcomes(FilterTasks(SeedTasks, f))]

\* the task list of a render, src/index.tsx:727-758: on the jobs tab, the
\* filtered copy of tasks, sorted
RenderOutcomes(ts, tab, f) ==
    IF tab = "jobs"
    THEN IF ts = SeedTasks THEN SeedRenders[f] ELSE SortOutcomes(FilterTasks(ts, f))
    ELSE {<<>>}

\* task.priority.replace(...) of a task without a priority throws,
\* src/index.tsx:748
RenderThrows(ts, tab, f) ==
    tab = "jobs" /\ \E t \in Elems(FilterTasks(ts, f)) : t.priority = NULL

\* every state change is followed by a render of App; a render that throws
\* leaves the task list of the render before
Rerender ==
    IF View' = "TaskList" /\ RenderThrows(tasks', activeTab', activeFilter')
    THEN rendered' = rendered
    ELSE rendered' \in IF View' = "TaskList"
                       THEN RenderOutcomes(tasks', activeTab', activeFilter')
                       ELSE {<<>>}

(***************************************************************************)
(* The errors Google Identity Services hands to error_callback: an object  *)
(* with a type and a message, or (older clients) a bare string.  str is    *)
(* the error when it is a string, NULL when it is an object.               *)
(***************************************************************************)
AuthError(s, t, e, m) == [str |-> s, type |-> t, error |-> e, message |-> m]

AuthErrors == {
    AuthError(NULL, "popup_closed", NULL, "Popup window closed"),
    AuthError(NULL, "popup_closed", NULL, NULL),
    AuthError(NULL, "popup_failed_to_open", NULL, "Failed to open popup window"),
    AuthError(NULL, "unknown", NULL, NULL),
    AuthError(NULL, NULL, "popup_closed_by_user", NULL),
    AuthError(NULL, NULL, NULL, "Popup window closed"),
    AuthError("popup_closed_by_user", NULL, NULL, NULL) }

\* a || b on strings
OrElse(a, b) == IF Truthy(a) THEN a ELSE b

\* which of the three phrases of src/index.tsx:545-547 m.toLowerCase() includes
PhrasesIn(m) ==
    CASE m = "Popup window closed" -> {"popup window closed", "window closed"}
      [] OTHER -> {}

\* src/index.tsx:533-548
IsPopupClosedOnlyByUserType(e) ==
    LET errorType == IF e.str # NULL THEN e.str ELSE OrElse(e.type, OrElse(e.error, ""))
    IN  errorType = "popup_closed_by_user"

IsPopupClosed(e) ==
    LET errorType == IF e.str # NULL THEN e.str ELSE OrElse(e.type, OrElse(e.error, ""))
        errorMessageText == IF e.str # NULL THEN e.str ELSE OrElse(e.message, "")
    IN  \/ errorType = "popup_closed_by_user"
        \/ errorType = "popup_closed"
        \/ "popup window closed" \in PhrasesIn(errorMessageText)
        \/ "popup closed" \in PhrasesIn(errorMessageText)
        \/ "window closed" \in PhrasesIn(errorMessageText)

(***************************************************************************)
(* ProjectDetail: state and requests.                                      *)
(***************************************************************************)
\* the initial values of the state hooks, src/index.tsx:61-76; also the value
\* of detail while no ProjectDetail is mounted
InitialDetail ==
    [subTasks |-> <<>>, isLoading |-> TRUE, error |-> NULL, isAdding |-> FALSE,
     newSubTaskName |-> "", newSubTaskAssignee |-> "", newSubTaskDueDate |-> "",
     aiGoalInput |-> "", isGenerating |-> FALSE, generationError |-> NULL,
     suggestedSubTasks |-> <<>>, selectedSubTasks |-> {}]

\* fetch: "none", or who awaits the values.get in flight: "mount" (the mount
\* effect) or "add" (an add handler awaiting fetchSheetData); appends: the
\* values.append calls in flight; generate: a generateContent call is in flight
\* fetchAuth: the values.get in flight was sent with a valid token
\* fetched: the rows the service read for it, while the answer travels
NoRequests ==
    [fetch |-> "none", fetchAuth |-> FALSE, fetched |-> <<>>, appends |-> <<>>,
     generate |-> FALSE]

\* the gapi client holding the token t ("none", "valid" or "expired") in front
\* of a tab with the rows sh, no values.update in flight; orphans: the
\* values.append in flight that was issued by a ProjectDetail unmounted since
\* (the latest such call: an older one is followed no further), as the
\* handler awaiting it and whether it was sent with a valid token
GapiWith(t, sh) == [token |-> t, sheet |-> sh, writes |-> <<>>, orphans |-> <<>>]

\* gapi attaches the token it holds to a call when the call is made; the
\* spreadsheet service rejects a call that carries an expired token
TokenValid == gapi.token = "valid"

\* the requests n with a values.get issued for who ("mount" or "add")
Fetching(n, who) == [n EXCEPT !.fetch = who, !.fetchAuth = TokenValid]

(***************************************************************************)
(* App: mount effects and initializeApis.                                  *)
(***************************************************************************)
\* the two mount effects, src/index.tsx:483-488 and 490-503 (to the first await)
Boot ==
    /\ bootPc = "mount"
    /\ spreadsheetId' = IF Truthy(storage) THEN storage ELSE spreadsheetId
    /\ bootPc' = "init"
    /\ UNCHANGED <<tasks, error, activeTab, selectedTask, activeFilter, gapiReady,
                   isSignedIn, tokenClient, storage, authPending>>
    /\ UNCHANGED <<detailVars, addVars, gapi>>
    /\ lastEvent' = Event("Boot", NULL)
    /\ Rerender

\* initializeApis ran to its end, src/index.tsx:504-560
InitSuccess ==
    /\ bootPc = "init"
    /\ tokenClient' = TRUE
    /\ gapiReady' = TRUE
    /\ bootPc' = "done"
    /\ UNCHANGED <<tasks, error, activeTab, selectedTask, activeFilter, isSignedIn,
                   spreadsheetId, storage, authPending>>
    /\ UNCHANGED <<detailVars, addVars, gapi>>
    /\ lastEvent' = Event("InitSuccess", NULL)
    /\ Rerender

\* a script failed to load or gapi.client.init rejected, src/index.tsx:561-565
InitFail ==
    /\ bootPc = "init"
    /\ error' = "Could not load Google services."
    /\ gapiReady' = TRUE
    /\ bootPc' = "done"
    /\ UNCHANGED <<tasks, activeTab, selectedTask, activeFilter, isSignedIn,
                   spreadsheetId, tokenClient, storage, authPending>>
    /\ UNCHANGED <<detailVars, addVars, gapi>>
    /\ lastEvent' = Event("InitFail", NULL)
    /\ Rerender

\* the client library fails to load after api.js did: gapi.load('client',
\* resolve) is given a callback only, which is called on success, and the
\* promise around it has no reject, src/index.tsx:504: initializeApis stays at
\* this await, neither its try block nor its catch block goes on
ClientLoadFails ==
    /\ bootPc = "init"
    /\ bootPc' = "stuck"
    /\ UNCHANGED <<tasks, error, activeTab, selectedTask, activeFilter, gapiReady,
                   isSignedIn, spreadsheetId, tokenClient, storage, authPending>>
    /\ UNCHANGED <<detailVars, addVars, gapi>>
    /\ lastEvent' = Event("ClientLoadFails", NULL)
    /\ Rerender

(***************************************************************************)
(* Identity session.                                                       *)
(***************************************************************************)
\* the sign-in button is rendered in the SignedOut view, disabled without a
\* token client, src/index.tsx:659-669
CanSignIn == View = "SignedOut" /\ tokenClient

\* src/index.tsx:571-579
HandleAuthClick ==
    /\ CanSignIn
    /\ authPending < MaxAuthPending
    /\ IF tokenClient
       THEN error' = NULL /\ authPending' = authPending + 1
       ELSE error' = "Google Sign-In is not ready yet." /\ authPending' = authPending
    /\ UNCHANGED <<tasks, activeTab, selectedTask, activeFilter, gapiReady,
                   isSignedIn, spreadsheetId, tokenClient, storage, bootPc>>
    /\ UNCHANGED <<detailVars, addVars, gapi>>
    /\ lastEvent' = Event("HandleAuthClick", NULL)
    /\ Rerender

\* the token client's callback, src/index.tsx:521-529
TokenCallback(hasAccessToken) ==
    /\ authPending > 0
    /\ authPending' = authPending - 1
    /\ IF hasAccessToken
       THEN /\ isSignedIn' = TRUE /\ error' = error
            /\ gapi' = [gapi EXCEPT !.token = "valid"]
       ELSE /\ isSignedIn' = isSignedIn
            /\ error' = "Authentication failed. Please try again."
            /\ gapi' = gapi
    /\ UNCHANGED <<tasks, activeTab, selectedTask, activeFilter, gapiReady,
                   spreadsheetId, tokenClient, storage, bootPc>>
    /\ UNCHANGED <<detailVars, addVars>>
    /\ lastEvent' = Event("TokenCallback", hasAccessToken)
    /\ Rerender

\* the access token's lifetime ends; gapi keeps the token it was given,
\* src/index.tsx:524, and nothing refreshes it
TokenExpires ==
    /\ gapi.token = "valid"
    /\ gapi' = [gapi EXCEPT !.token = "expired"]
    /\ UNCHANGED <<hubVars, detailVars>>
    /\ lastEvent' = Event("TokenExpires", NULL)

\* the token client's error_callback, src/index.tsx:530-557
ErrorCallback(e) ==
    /\ authPending > 0
    /\ authPending' = authPending - 1
    /\ error' = IF IsPopupClosed(e) THEN NULL ELSE "TroubleshootingError"
    /\ UNCHANGED <<tasks, activeTab, selectedTask, activeFilter, gapiReady,
                   isSignedIn, spreadsheetId, tokenClient, storage, bootPc>>
    /\ UNCHANGED <<detailVars, addVars, gapi>>
    /\ lastEvent' = Event("ErrorCallback", e)
    /\ Rerender

(***************************************************************************)
(* Spreadsheet id: the Setup component and the hub header.                 *)
(***************************************************************************)
\* the text is saved as it was typed
SetupSaveUntrimmed(inputId) ==
    /\ View = "NeedsSetup"
    /\ IF Truthy(Trim(inputId))
       THEN storage' = inputId /\ spreadsheetId' = inputId
       ELSE UNCHANGED <<storage, spreadsheetId>>
    /\ UNCHANGED <<tasks, error, activeTab, selectedTask, activeFilter, gapiReady,
                   isSignedIn, tokenClient, bootPc, authPending>>
    /\ UNCHANGED <<detailVars, addVars, gapi>>
    /\ lastEvent' = IF Truthy(Trim(inputId))
                     THEN Event("SetupSave", inputId)
                     ELSE Alerted("SetupSave", inputId, "Please enter a valid Spreadsheet ID.")
    /\ Rerender

\* Setup.handleSave with the typed text, src/index.tsx:416-422, calling
\* handleSaveSpreadsheetId, src/index.tsx:581-584
SetupSave(inputId) ==
    /\ View = "NeedsSetup"
    /\ IF Truthy(Trim(inputId))
       THEN storage' = Trim(inputId) /\ spreadsheetId' = Trim(inputId)
       ELSE UNCHANGED <<storage, spreadsheetId>>
    /\ UNCHANGED <<tasks, error, activeTab, selectedTask, activeFilter, gapiReady,
                   isSignedIn, tokenClient, bootPc, authPending>>
    /\ UNCHANGED <<detailVars, addVars, gapi>>
    /\ lastEvent' = IF Truthy(Trim(inputId))
                     THEN Event("SetupSave", inputId)
                     ELSE Alerted("SetupSave", inputId, "Please enter a valid Spreadsheet ID.")
    /\ Rerender

\* src/index.tsx:586-589, without the removeItem
HandleChangeSpreadsheetKeepStored ==
    /\ View = "TaskList"
    /\ spreadsheetId' = NULL
    /\ UNCHANGED <<tasks, error, activeTab, selectedTask, activeFilter, gapiReady,
                   isSignedIn, tokenClient, storage, bootPc, authPending>>
    /\ UNCHANGED <<detailVars, addVars, gapi>>
    /\ lastEvent' = Event("HandleChangeSpreadsheet", NULL)
    /\ Rerender

\* src/index.tsx:586-589; the button is in the header of the task list, src/index.tsx:688
HandleChangeSpreadsheet ==
    /\ View = "TaskList"
    /\ storage' = NULL
    /\ spreadsheetId' = NULL
    /\ UNCHANGED <<tasks, error, activeTab, selectedTask, activeFilter, gapiReady,
                   isSignedIn, tokenClient, bootPc, authPending>>
    /\ UNCHANGED <<detailVars, addVars, gapi>>
    /\ lastEvent' = Event("HandleChangeSpreadsheet", NULL)
    /\ Rerender

(***************************************************************************)
(* Task list: tabs, filters, selection.                                    *)
(***************************************************************************)
\* src/index.tsx:710 and 718
SetActiveTab(tab) ==
    /\ View = "TaskList"
    /\ activeTab' = tab
    /\ UNCHANGED <<tasks, error, selectedTask, activeFilter, gapiReady, isSignedIn,
                   spreadsheetId, tokenClient, storage, bootPc, authPending>>
    /\ UNCHANGED <<detailVars, addVars, gapi>>
    /\ lastEvent' = Event("SetActiveTab", NULL)
    /\ Rerender

\* src/index.tsx:733; the filter buttons are on the jobs tab
SetActiveFilter(f) ==
    /\ View = "TaskList"
    /\ activeTab = "jobs"
    /\ activeFilter' = f
    /\ UNCHANGED <<tasks, error, activeTab, selectedTask, gapiReady, isSignedIn,
                   spreadsheetId, tokenClient, storage, bootPc, authPending>>
    /\ UNCHANGED <<detailVars, addVars, gapi>>
    /\ lastEvent' = Event("SetActiveFilter", NULL)
    /\ Rerender

\* the click also gives up the add-task request in flight
HandleTaskClickCancelling(i) ==
    /\ View = "TaskList"
    /\ i \in 1..Len(rendered)
    /\ selectedTask' = rendered[i].name
    /\ detail' = InitialDetail
    /\ net' = Fetching(NoRequests, "mount")
    /\ isLoading' = FALSE
    /\ extractPending' = FALSE
    /\ UNCHANGED <<tasks, error, activeTab, activeFilter, gapiReady, isSignedIn,
                   spreadsheetId, tokenClient, storage, bootPc, authPending>>
    /\ UNCHANGED <<newTaskInput, gapi>>
    /\ lastEvent' = Event("HandleTaskClick", i)
    /\ Rerender

\* a click on the i-th rendered task, src/index.tsx:647-649 and 748: ProjectDetail
\* is mounted and its mount effect calls fetchSheetData, src/index.tsx:79-87, 109-111
HandleTaskClick(i) ==
    /\ View = "TaskList"
    /\ i \in 1..Len(rendered)
    /\ selectedTask' = rendered[i].name
    /\ detail' = InitialDetail
    /\ net' = Fetching(NoRequests, "mount")
    /\ UNCHANGED <<tasks, error, activeTab, activeFilter, gapiReady, isSignedIn,
                   spreadsheetId, tokenClient, storage, bootPc, authPending>>
    /\ UNCHANGED <<addVars, gapi>>
    /\ lastEvent' = Event("HandleTaskClick", i)
    /\ Rerender

\* the back button of ProjectDetail, src/index.tsx:651-653 and 276: the component
\* is unmounted.  Nothing cancels its requests: the answers to its values.get
\* and generateContent set the state of the unmounted component, which nothing
\* renders, and its values.append goes on as an orphan (its values.update
\* calls are in gapi.writes)
HandleBackClick ==
    /\ View = "TaskDetail"
    /\ selectedTask' = NULL
    /\ detail' = InitialDetail
    /\ net' = NoRequests
    /\ gapi' = [gapi EXCEPT !.orphans =
                    IF net.appends # <<>>
                    THEN [i \in 1..Len(net.appends) |->
                             [from |-> net.appends[i].from, auth |-> net.appends[i].auth]]
                    ELSE @]
    /\ UNCHANGED <<tasks, error, activeTab, activeFilter, gapiReady, isSignedIn,
                   spreadsheetId, tokenClient, storage, bootPc, authPending>>
    /\ UNCHANGED addVars
    /\ lastEvent' = Event("HandleBackClick", NULL)
    /\ Rerender

(***************************************************************************)
(* App: the add-task form, src/index.tsx:598-645 and 691-703.              *)
(***************************************************************************)
MaxAddedTasks == 2

TaskInputs == {"", " ", "Cut the trailer"}

\* onInput of the add-task input, src/index.tsx:692-699
SetNewTaskInput(s) ==
    /\ View = "TaskList"
    /\ ~isLoading
    /\ newTaskInput' = s
    /\ UNCHANGED <<tasks, error, activeTab, selectedTask, activeFilter, gapiReady,
                   isSignedIn, spreadsheetId, tokenClient, storage, bootPc,
                   authPending, isLoading, extractPending>>
    /\ UNCHANGED <<detailVars, gapi>>
    /\ lastEvent' = Event("SetNewTaskInput", s)
    /\ Rerender

\* the form is submitted, src/index.tsx:598-603 and 691-702
HandleAddTask ==
    /\ View = "TaskList"
    /\ ~isLoading
    /\ Len(tasks) < Len(SeedTasks) + MaxAddedTasks
    /\ IF Trim(newTaskInput) = "" \/ isLoading
       THEN UNCHANGED <<isLoading, error, extractPending>>
       ELSE /\ isLoading' = TRUE
            /\ error' = NULL
            /\ extractPending' = TRUE
    /\ UNCHANGED <<tasks, activeTab, selectedTask, activeFilter, gapiReady,
                   isSignedIn, spreadsheetId, tokenClient, storage, bootPc,
                   authPending, newTaskInput>>
    /\ UNCHANGED <<detailVars, gapi>>
    /\ lastEvent' = Event("HandleAddTask", NULL)
    /\ Rerender

\* JSON.parse(response.text): the fields the page reads; NULL is a missing one
TaskData(n, a, d, p) == [name |-> n, assignee |-> a, dueDate |-> d, priority |-> p]

TaskDatas == {
    TaskData("Cut the trailer", JESS, "2025-10-24", "High Priority"),
    TaskData("Cut the trailer", JESS, "2025-10-24", NULL),
    TaskData("Cut the trailer", JESS, NULL, "High Priority"),
    TaskData("Cut the trailer", NULL, "2025-10-24", "High Priority"),
    TaskData("", JESS, "2025-10-24", "High Priority")}

UnderstandErrorText ==
    "Sorry, I couldn't understand that. Please try rephrasing your request."

\* newTaskData.name && newTaskData.assignee && newTaskData.dueDate,
\* src/index.tsx:632
TaskDataAccepted(data) ==
    Truthy(data.name) /\ Truthy(data.assignee) /\ Truthy(data.dueDate)

\* { ...newTaskData, status: 'Todo', startDate: null }, src/index.tsx:633
NewTask(data) ==
    Started(Task(data.name, data.priority, data.assignee, "Todo", data.dueDate), NULL)

\* the new task is put in front of the list
ExtractSuccessPrepending(data) ==
    /\ extractPending
    /\ IF TaskDataAccepted(data)
       THEN /\ tasks' = <<NewTask(data)>> \o tasks
            /\ newTaskInput' = ""
            /\ error' = error
       ELSE /\ error' = UnderstandErrorText
            /\ UNCHANGED <<tasks, newTaskInput>>
    /\ isLoading' = FALSE
    /\ extractPending' = FALSE
    /\ UNCHANGED <<activeTab, selectedTask, activeFilter, gapiReady, isSignedIn,
                   spreadsheetId, tokenClient, storage, bootPc, authPending>>
    /\ UNCHANGED <<detailVars, gapi>>
    /\ lastEvent' = Event("ExtractSuccess", data)
    /\ Rerender

\* generateContent answers with JSON text, src/index.tsx:629-644
ExtractSuccess(data) ==
    /\ extractPending
    /\ IF TaskDataAccepted(data)
       THEN /\ tasks' = Append(tasks, NewTask(data))
            /\ newTaskInput' = ""
            /\ error' = error
       ELSE /\ error' = UnderstandErrorText
            /\ UNCHANGED <<tasks, newTaskInput>>
    /\ isLoading' = FALSE
    /\ extractPending' = FALSE
    /\ UNCHANGED <<activeTab, selectedTask, activeFilter, gapiReady, isSignedIn,
                   spreadsheetId, tokenClient, storage, bootPc, authPending>>
    /\ UNCHANGED <<detailVars, gapi>>
    /\ lastEvent' = Event("ExtractSuccess", data)
    /\ Rerender

\* generateContent is rejected, or its text is no JSON, src/index.tsx:639-644
ExtractFail ==
    /\ extractPending
    /\ error' = UnderstandErrorText
    /\ isLoading' = FALSE
    /\ extractPending' = FALSE
    /\ UNCHANGED <<tasks, activeTab, selectedTask, activeFilter, gapiReady,
                   isSignedIn, spreadsheetId, tokenClient, storage, bootPc,
                   authPending, newTaskInput>>
    /\ UNCHANGED <<detailVars, gapi>>
    /\ lastEvent' = Event("ExtractFail", NULL)
    /\ Rerender

(***************************************************************************)
(* ProjectDetail: fetchSheetData, src/index.tsx:79-107.                    *)
(***************************************************************************)
\* a row of response.result.values: the cells the page reads, row[0] name,
\* row[1] assignee, row[2] status, row[4] dueDate; "" is an empty or a
\* missing cell (both are falsy in row[i] || default)
Row(n, a, s, d) == [name |-> n, assignee |-> a, status |-> s, dueDate |-> d]

RowNames == {"", "Buy props"}
RowStatuses == {"", "Done"}
Rows == {Row(n, "", s, "") : n \in RowNames, s \in RowStatuses}

\* the answer to values.get: result.values is missing when the range holds no
\* data (hasValues FALSE), else it is the rows of the range from row 2 on
GetResponse(h, v) == [hasValues |-> h, values |-> v]

SeqsUpTo(S, n) == UNION {[1..k -> S] : k \in 0..n}

GetResponses(n) ==
    {GetResponse(FALSE, <<>>)} \cup {GetResponse(TRUE, v) : v \in SeqsUpTo(Rows, n)}

\* response.result.values || [], src/index.tsx:87
ValuesOf(resp) == IF resp.hasValues THEN resp.values ELSE <<>>

\* the object of values.map, src/index.tsx:88-94; index counts from 0, and i
\* here counts from 1, so that index + 2 is i + 1
SubTaskOfRow(row, i) ==
    [id |-> i + 1,
     status |-> OrElse(row.status, "Todo"),
     name |-> OrElse(row.name, ""),
     assignee |-> OrElse(row.assignee, ""),
     dueDate |-> OrElse(row.dueDate, "")]

NameIsTruthy(t) == Truthy(t.name)

\* the rows are numbered after the empty ones are dropped
TasksWithIdsFilterFirst(values) ==
    LET kept == SelectSeq(values, NameIsTruthy)
    IN  [i \in 1..Len(kept) |-> SubTaskOfRow(kept[i], i)]

\* values.map(...).filter(t => t.name), src/index.tsx:88-94
TasksWithIds(values) ==
    SelectSeq([i \in 1..Len(values) |-> SubTaskOfRow(values[i], i)], NameIsTruthy)

\* the rejection of a gapi request: err.result.error with its code and its
\* message; hasError is FALSE when err carries no result.error
GapiError(h, c, m) == [hasError |-> h, code |-> c, message |-> m]

\* the answer to a range whose tab does not exist
TabNotFound == GapiError(TRUE, 400, "Unable to parse range: 'tab'!A2:F100")

\* the answer to a call that carries an expired or a revoked token
Unauthenticated == GapiError(TRUE, 401, "Request had invalid authentication credentials.")

FetchErrors == {
    TabNotFound,
    GapiError(TRUE, 400, "This operation is not supported for this document"),
    Unauthenticated,
    GapiError(TRUE, 404, "Requested entity was not found."),
    GapiError(TRUE, 500, "Internal error encountered."),
    GapiError(FALSE, 0, NULL)}

\* message.includes('Unable to parse range'), src/index.tsx:99
IncludesUnableToParseRange(m) == m = "Unable to parse range: 'tab'!A2:F100"

NotFoundText(name) ==
    "Could not find a sheet named \"" \o name \o
    "\". Make sure a tab in your Google Sheet exactly matches the project name."

LoadFailedText ==
    "Could not load project details. Please check your connection and try again."

\* every failure shows the generic text
FetchErrorTextGeneric(err, name) == LoadFailedText

\* a rejected token is taken for a missing tab as well
FetchErrorTextTokenAsNotFound(err, name) ==
    IF err.hasError /\ err.code \in {400, 401}
    THEN NotFoundText(name)
    ELSE LoadFailedText

\* the text the catch block sets, src/index.tsx:97-103
FetchErrorText(err, name) ==
    IF \/ err.hasError /\ err.code = 400
       \/ err.hasError /\ IncludesUnableToParseRange(err.message)
    THEN NotFoundText(name)
    ELSE LoadFailedText

\* the table rows, the add form and the AI section are rendered,
\* src/index.tsx:285
DetailUsable == View = "TaskDetail" /\ ~detail.isLoading /\ detail.error = NULL

\* finally { setIsAdding(false) } of the add handler that awaits this fetch,
\* src/index.tsx:155-157 and 251-253: it runs in the same turn as the fetch's
\* own continuation
AfterFetch(d) == IF net.fetch = "add" THEN [d EXCEPT !.isAdding = FALSE] ELSE d

\* values.get answers, src/index.tsx:87-96 and 104-106
FetchSuccess(resp) ==
    /\ View = "TaskDetail"
    /\ net.fetch # "none"
    /\ net.fetchAuth
    /\ detail' = AfterFetch([detail EXCEPT !.subTasks = TasksWithIds(ValuesOf(resp)),
                                           !.isLoading = FALSE])
    /\ net' = [net EXCEPT !.fetch = "none", !.fetchAuth = FALSE, !.fetched = <<>>]
    /\ UNCHANGED <<hubVars, gapi>>
    /\ lastEvent' = Event("FetchSuccess", resp)

\* values.get is rejected, src/index.tsx:97-106
FetchFail(err) ==
    /\ View = "TaskDetail"
    /\ net.fetch # "none"
    /\ ~net.fetchAuth => err = Unauthenticated
    /\ detail' = AfterFetch([detail EXCEPT !.error = FetchErrorText(err, selectedTask),
                                           !.isLoading = FALSE])
    /\ net' = [net EXCEPT !.fetch = "none", !.fetchAuth = FALSE, !.fetched = <<>>]
    /\ UNCHANGED <<hubVars, gapi>>
    /\ lastEvent' = Event("FetchFail", err)

(***************************************************************************)
(* ProjectDetail: adding sub-tasks, by hand and from the AI suggestions.   *)
(***************************************************************************)
NameInputs == {"", " ", "Buy props"}
GoalInputs == {"", " ", "Plan the shoot"}

\* a row of the values of values.append: [name, assignee, status, notes, dueDate]
AppendRow(n, a, s, notes, d) ==
    [name |-> n, assignee |-> a, status |-> s, notes |-> notes, dueDate |-> d]

\* a values.append call in flight: its resource.values, and the handler that
\* awaits it ("manual": handleAddNewSubTask, "selected": handleAddSelectedSubTasks)
AppendCall(rows, from) == [rows |-> rows, from |-> from, auth |-> TokenValid]

\* fetchSheetData up to its await, src/index.tsx:79-86
StartFetch(d) == [d EXCEPT !.isLoading = TRUE, !.error = NULL]

\* onInput of the new sub-task's name, src/index.tsx:376
SetNewSubTaskName(s) ==
    /\ DetailUsable
    /\ detail' = [detail EXCEPT !.newSubTaskName = s]
    /\ UNCHANGED <<hubVars, net, gapi>>
    /\ lastEvent' = Event("SetNewSubTaskName", s)

AssigneeInputs == {"", "Jess"}
DueDateInputs == {"", "2025-11-01"}

\* onInput of the new sub-task's assignee, src/index.tsx:385
SetNewSubTaskAssignee(s) ==
    /\ DetailUsable
    /\ detail' = [detail EXCEPT !.newSubTaskAssignee = s]
    /\ UNCHANGED <<hubVars, net, gapi>>
    /\ lastEvent' = Event("SetNewSubTaskAssignee", s)

\* onInput of the new sub-task's due date, src/index.tsx:394
SetNewSubTaskDueDate(s) ==
    /\ DetailUsable
    /\ detail' = [detail EXCEPT !.newSubTaskDueDate = s]
    /\ UNCHANGED <<hubVars, net, gapi>>
    /\ lastEvent' = Event("SetNewSubTaskDueDate", s)

\* the form keeps what was typed when the append succeeds
KeepForm(d) == d

\* setNewSubTaskName(''), setNewSubTaskAssignee(''), setNewSubTaskDueDate(''),
\* src/index.tsx:147-149
ClearForm(d) ==
    [d EXCEPT !.newSubTaskName = "", !.newSubTaskAssignee = "", !.newSubTaskDueDate = ""]

\* the add-subtask button, src/index.tsx:130-145 and 400
HandleAddNewSubTask ==
    /\ DetailUsable
    /\ ~detail.isAdding
    /\ IF Trim(detail.newSubTaskName) = ""
       THEN UNCHANGED <<detail, net>>
       ELSE /\ detail' = [detail EXCEPT !.isAdding = TRUE]
            /\ net' = [net EXCEPT !.appends = Append(@,
                         AppendCall(<<AppendRow(detail.newSubTaskName,
                                                detail.newSubTaskAssignee, "Todo", "",
                                                detail.newSubTaskDueDate)>>, "manual"))]
    /\ UNCHANGED <<hubVars, gapi>>
    /\ lastEvent' = IF Trim(detail.newSubTaskName) = ""
                     THEN Alerted("HandleAddNewSubTask", NULL, "Please enter a task name.")
                     ELSE Event("HandleAddNewSubTask", NULL)

\* the handler that awaits values.append goes on: the rest of the try block up
\* to the await of fetchSheetData, src/index.tsx:146-150 and 243-246
AppendAnswered ==
    /\ View = "TaskDetail"
    /\ net.appends # <<>>
    /\ Head(net.appends).auth
    /\ LET call == Head(net.appends)
       IN  /\ detail' = StartFetch(
                  IF call.from = "manual"
                  THEN ClearForm(detail)
                  ELSE [detail EXCEPT !.aiGoalInput = "",
                                      !.suggestedSubTasks = <<>>,
                                      !.selectedSubTasks = {}])
           /\ lastEvent' = Event("AppendSuccess", call)
    /\ net' = Fetching([net EXCEPT !.appends = Tail(@)], "add")
    /\ UNCHANGED hubVars

\* values.append answers, where the rows of the tab are not followed
AppendSuccess == AppendAnswered /\ UNCHANGED gapi

\* the rejection is handled as the success is: the refetch is issued
AppendFailRefetching ==
    /\ View = "TaskDetail"
    /\ net.appends # <<>>
    /\ detail' = StartFetch(detail)
    /\ net' = Fetching([net EXCEPT !.appends = Tail(@)], "add")
    /\ UNCHANGED <<hubVars, gapi>>
    /\ lastEvent' = Alerted("AppendFail", Head(net.appends),
                             IF Head(net.appends).from = "manual"
                             THEN "Could not add the new sub-task. Please try again."
                             ELSE "Could not add the selected sub-tasks. Please try again.")

\* values.append is rejected: alert, then finally, src/index.tsx:151-157 and
\* 248-253
AppendFail ==
    /\ View = "TaskDetail"
    /\ net.appends # <<>>
    /\ detail' = [detail EXCEPT !.isAdding = FALSE]
    /\ net' = [net EXCEPT !.appends = Tail(@)]
    /\ UNCHANGED <<hubVars, gapi>>
    /\ lastEvent' = Alerted("AppendFail", Head(net.appends),
                             IF Head(net.appends).from = "manual"
                             THEN "Could not add the new sub-task. Please try again."
                             ELSE "Could not add the selected sub-tasks. Please try again.")

\* the alert of the catch block of the handler that issued the append,
\* src/index.tsx:154 and 250
AppendFailedText(call) ==
    IF call.from = "manual"
    THEN "Could not add the new sub-task. Please try again."
    ELSE "Could not add the selected sub-tasks. Please try again."

\* values.append answers a handler whose ProjectDetail is unmounted,
\* src/index.tsx:146-151 and 243-246: the state it sets and the sub-tasks its
\* fetchSheetData reads are those of the unmounted component
OrphanAppendSuccess ==
    /\ gapi.orphans # <<>>
    /\ Head(gapi.orphans).auth
    /\ gapi' = [gapi EXCEPT !.orphans = Tail(@)]
    /\ UNCHANGED <<hubVars, detailVars>>
    /\ lastEvent' = Event("OrphanAppendSuccess", Head(gapi.orphans))

\* values.append is rejected after the unmount, src/index.tsx:152-157 and
\* 248-253: the alert is shown over whatever view is rendered
OrphanAppendFail ==
    /\ gapi.orphans # <<>>
    /\ gapi' = [gapi EXCEPT !.orphans = Tail(@)]
    /\ UNCHANGED <<hubVars, detailVars>>
    /\ lastEvent' = Alerted("OrphanAppendFail", Head(gapi.orphans),
                             AppendFailedText(Head(gapi.orphans)))

\* onInput of the goal textarea, src/index.tsx:293-294
SetAiGoalInput(s) ==
    /\ DetailUsable
    /\ ~detail.isGenerating
    /\ detail' = [detail EXCEPT !.aiGoalInput = s]
    /\ UNCHANGED <<hubVars, net, gapi>>
    /\ lastEvent' = Event("SetAiGoalInput", s)

\* the Generate Tasks button, src/index.tsx:160-166 and 297
HandleGenerateSubTasks ==
    /\ DetailUsable
    /\ ~(detail.isGenerating \/ Trim(detail.aiGoalInput) = "")
    /\ detail' = [detail EXCEPT !.isGenerating = TRUE,
                                !.generationError = NULL,
                                !.suggestedSubTasks = <<>>,
                                !.selectedSubTasks = {}]
    /\ net' = [net EXCEPT !.generate = TRUE]
    /\ UNCHANGED <<hubVars, gapi>>
    /\ lastEvent' = Event("HandleGenerateSubTasks", NULL)

\* an object of the array the model answers with: name is required, assignee
\* and dueDate may be missing (NULL)
Suggested(n, a, d) == [name |-> n, assignee |-> a, dueDate |-> d]

SuggestedItems == {
    Suggested("Scout location", "Producer", NULL),
    Suggested("Book crew", NULL, "2025-11-01")}

\* the schema asks for a name, and the empty text is one
AnySuggestedItems == SuggestedItems \cup {Suggested("", "Editor", NULL)}

GenId(index) == "gen-" \o ToString(index)

\* generateContent answers with a JSON array, src/index.tsx:194-204
GenerateSuccess(items) ==
    /\ View = "TaskDetail"
    /\ net.generate
    /\ detail' = [detail EXCEPT
           !.suggestedSubTasks =
               [i \in 1..Len(items) |->
                   [id |-> GenId(i - 1), name |-> items[i].name,
                    assignee |-> items[i].assignee, dueDate |-> items[i].dueDate]],
           !.selectedSubTasks = {GenId(i - 1) : i \in 1..Len(items)},
           !.isGenerating = FALSE]
    /\ net' = [net EXCEPT !.generate = FALSE]
    /\ UNCHANGED <<hubVars, gapi>>
    /\ lastEvent' = Event("GenerateSuccess", items)

GenerationErrorText ==
    "Sorry, I couldn't generate sub-tasks for that. Please try rephrasing your goal."

\* generateContent is rejected, or its text is no JSON array, src/index.tsx:201-206
GenerateFail ==
    /\ View = "TaskDetail"
    /\ net.generate
    /\ detail' = [detail EXCEPT !.generationError = GenerationErrorText,
                                !.isGenerating = FALSE]
    /\ net' = [net EXCEPT !.generate = FALSE]
    /\ UNCHANGED <<hubVars, gapi>>
    /\ lastEvent' = Event("GenerateFail", NULL)

\* the id is added, and stays when it is there
ToggledOn(selection, taskId) == selection \cup {taskId}

\* newSelection of handleToggleSuggestedTask, src/index.tsx:210-215
Toggled(selection, taskId) ==
    IF taskId \in selection THEN selection \ {taskId} ELSE selection \cup {taskId}

\* the checkbox of the i-th suggestion, src/index.tsx:209-217 and 309-313
HandleToggleSuggestedTask(i) ==
    /\ DetailUsable
    /\ i \in 1..Len(detail.suggestedSubTasks)
    /\ LET taskId == detail.suggestedSubTasks[i].id
       IN  detail' = [detail EXCEPT !.selectedSubTasks = Toggled(@, taskId)]
    /\ UNCHANGED <<hubVars, net, gapi>>
    /\ lastEvent' = Event("HandleToggleSuggestedTask", i)

\* every suggestion is added, selected or not
AllSuggestions(d) == d.suggestedSubTasks

\* suggestedSubTasks.filter(t => selectedSubTasks.has(t.id)), src/index.tsx:220
TasksToAdd(d) ==
    LET IsSelected(t) == t.id \in d.selectedSubTasks
    IN  SelectSeq(d.suggestedSubTasks, IsSelected)

\* tasksToAdd.map(...), src/index.tsx:225-231
NewRows(tasksToAdd) ==
    [i \in 1..Len(tasksToAdd) |->
        AppendRow(OrElse(tasksToAdd[i].name, ""), OrElse(tasksToAdd[i].assignee, ""),
                  "Todo", "", OrElse(tasksToAdd[i].dueDate, ""))]

\* the add-selected button, src/index.tsx:219-241, 304 and 328
HandleAddSelectedSubTasks ==
    /\ DetailUsable
    /\ Len(detail.suggestedSubTasks) > 0
    /\ ~(detail.isAdding \/ Cardinality(detail.selectedSubTasks) = 0)
    /\ IF Len(TasksToAdd(detail)) = 0
       THEN UNCHANGED <<detail, net>>
       ELSE /\ detail' = [detail EXCEPT !.isAdding = TRUE]
            /\ net' = [net EXCEPT !.appends = Append(@,
                         AppendCall(NewRows(TasksToAdd(detail)), "selected"))]
    /\ UNCHANGED <<hubVars, gapi>>
    /\ lastEvent' = Event("HandleAddSelectedSubTasks", NULL)

(***************************************************************************)
(* ProjectDetail: editing a sub-task's status and name, src/index.tsx:     *)
(* 113-128 and 257-272.                                                    *)
(***************************************************************************)
MaxWrites == 2

\* a values.update call in flight, src/index.tsx:115-123: the range
\* '<task>'!<column><rowId> and the one value; auth as for the other calls
Write(t, r, c, v) ==
    [task |-> t, row |-> r, column |-> c, value |-> v, auth |-> TokenValid]

\* the call addresses the row by the sub-task's index in the values read
HandleUpdateSheetAtIndex(rowId, column, value) ==
    gapi' = [gapi EXCEPT !.writes = Append(@, Write(selectedTask, rowId - 2, column, value))]

\* handleUpdateSheet up to its await, src/index.tsx:113-123
HandleUpdateSheet(rowId, column, value) ==
    gapi' = [gapi EXCEPT !.writes = Append(@, Write(selectedTask, rowId, column, value))]

\* isChecked ? 'Done' : 'In Progress', src/index.tsx:258
NewStatus(st, isChecked) == IF isChecked THEN "Done" ELSE "In Progress"

\* the k-th row's checkbox is clicked, src/index.tsx:257-264 and 346-352: it
\* is rendered checked when the status is Done, and the click inverts it
HandleStatusChange(k) ==
    /\ DetailUsable
    /\ k \in 1..Len(detail.subTasks)
    /\ Len(gapi.writes) < MaxWrites
    /\ LET subTask == detail.subTasks[k]
           isChecked == ~(subTask.status = "Done")
           newStatus == NewStatus(subTask, isChecked)
       IN  /\ detail' = [detail EXCEPT !.subTasks =
                  [i \in 1..Len(@) |->
                      IF @[i].id = subTask.id THEN [@[i] EXCEPT !.status = newStatus]
                                              ELSE @[i]]]
           /\ HandleUpdateSheet(subTask.id, "C", newStatus)
           /\ lastEvent' = Event("HandleStatusChange",
                                 [id |-> subTask.id, before |-> subTask.status])
    /\ UNCHANGED <<hubVars, net>>

NameEdits == {"", "Rent a van"}

\* e.currentTarget.value !== st.name &&, src/index.tsx:358
NameChanged(st, value) == value # st.name

\* the k-th row's name input loses the focus holding the text value,
\* src/index.tsx:266-272 and 355-359
HandleNameChange(k, value) ==
    /\ DetailUsable
    /\ k \in 1..Len(detail.subTasks)
    /\ Len(gapi.writes) < MaxWrites
    /\ LET subTask == detail.subTasks[k]
       IN  /\ NameChanged(subTask, value)
           /\ detail' = [detail EXCEPT !.subTasks =
                  [i \in 1..Len(@) |->
                      IF @[i].id = subTask.id THEN [@[i] EXCEPT !.name = value]
                                              ELSE @[i]]]
           /\ HandleUpdateSheet(subTask.id, "A", value)
           /\ lastEvent' = Event("HandleNameChange",
                                 [id |-> subTask.id, before |-> subTask.name])
    /\ UNCHANGED <<hubVars, net>>

\* the tab gapi.sheet stands for: the one of the task rendered first
SheetTab == (CHOOSE r \in SeedRenders["all"] : TRUE)[1].name

\* a cell that holds a value keeps it
ApplyWriteToEmptyCell(sh, w) ==
    IF w.task = SheetTab /\ w.row - 1 \in 1..Len(sh)
    THEN [sh EXCEPT ![w.row - 1] =
             IF w.column = "A" /\ @.name = "" THEN [@ EXCEPT !.name = w.value]
             ELSE IF w.column = "C" /\ @.status = "" THEN [@ EXCEPT !.status = w.value]
             ELSE @]
    ELSE sh

\* the rows sh after the service applied the write w (USER_ENTERED: the cell
\* takes the value); a write to another tab or below the rows leaves them
ApplyWrite(sh, w) ==
    IF w.task = SheetTab /\ w.row - 1 \in 1..Len(sh)
    THEN [sh EXCEPT ![w.row - 1] =
             IF w.column = "A" THEN [@ EXCEPT !.name = w.value]
             ELSE IF w.column = "C" THEN [@ EXCEPT !.status = w.value]
             ELSE @]
    ELSE sh

\* s without its i-th element
RemoveAt(s, i) == SubSeq(s, 1, i - 1) \o SubSeq(s, i + 1, Len(s))

\* the service applies the i-th write in flight and values.update resolves,
\* src/index.tsx:116-123: the page does nothing more.  The calls are answered
\* in any order.
WriteSuccess(i) ==
    /\ i \in 1..Len(gapi.writes)
    /\ gapi.writes[i].auth
    /\ gapi' = [gapi EXCEPT !.sheet = ApplyWrite(@, gapi.writes[i]),
                            !.writes = RemoveAt(@, i)]
    /\ UNCHANGED <<hubVars, detailVars>>
    /\ lastEvent' = Event("WriteSuccess", gapi.writes[i])

\* the rejected call is issued again
WriteFailRetrying(i) ==
    /\ i \in 1..Len(gapi.writes)
    /\ gapi' = [gapi EXCEPT !.writes = Append(RemoveAt(@, i), @[i])]
    /\ UNCHANGED <<hubVars, detailVars>>
    /\ lastEvent' = Alerted("WriteFail", gapi.writes[i],
                            "Failed to save changes. Please try again.")

\* values.update is rejected: the catch block, src/index.tsx:124-127
WriteFail(i) ==
    /\ i \in 1..Len(gapi.writes)
    /\ gapi' = [gapi EXCEPT !.writes = RemoveAt(@, i)]
    /\ UNCHANGED <<hubVars, detailVars>>
    /\ lastEvent' = Alerted("WriteFail", gapi.writes[i],
                            "Failed to save changes. Please try again.")

\* the rows sh after the service appended the values of a values.append call
\* below them (range A:E, INSERT_ROWS, src/index.tsx:137-145): name, assignee
\* and status go to the columns A to C, the due date to column E
AppendedTo(sh, rows) ==
    sh \o [i \in 1..Len(rows) |->
              Row(rows[i].name, rows[i].assignee, rows[i].status, rows[i].dueDate)]

\* the service appends the rows to the tab and values.append answers
AppendSuccessOnSheet ==
    /\ selectedTask = SheetTab
    /\ AppendAnswered
    /\ gapi' = [gapi EXCEPT !.sheet = AppendedTo(@, Head(net.appends).rows)]

\* the service reads the tab for the values.get in flight
SheetRead ==
    /\ View = "TaskDetail"
    /\ selectedTask = SheetTab
    /\ net.fetch # "none"
    /\ net.fetchAuth
    /\ net.fetched = <<>>
    /\ net' = [net EXCEPT !.fetched =
                  <<IF gapi.sheet = <<>> THEN GetResponse(FALSE, <<>>)
                                         ELSE GetResponse(TRUE, gapi.sheet)>>]
    /\ UNCHANGED <<hubVars, detail, gapi>>
    /\ lastEvent' = Event("SheetRead", NULL)

\* values.get resolves with the rows the service read
FetchFromSheet ==
    /\ net.fetched # <<>>
    /\ FetchSuccess(Head(net.fetched))

(***************************************************************************)
(* Spec: the hub from page load.  localStorage holds no id, or one saved   *)
(* by an earlier run of the page.                                          *)
(***************************************************************************)
Init ==
    /\ tasks = SeedTasks
    /\ error = NULL
    /\ activeTab = "jobs"
    /\ selectedTask = NULL
    /\ activeFilter = "all"
    /\ gapiReady = FALSE
    /\ isSignedIn = FALSE
    /\ spreadsheetId = NULL
    /\ tokenClient = FALSE
    /\ storage \in {NULL, "sheetA"}
    /\ bootPc = "mount"
    /\ authPending = 0
    /\ newTaskInput = ""
    /\ isLoading = FALSE
    /\ extractPending = FALSE
    /\ rendered = <<>>
    /\ detail = InitialDetail
    /\ net = NoRequests
    /\ gapi = GapiWith("none", <<>>)
    /\ lastEvent = Event("load", NULL)

Next ==
    \/ Boot
    \/ InitSuccess
    \/ InitFail
    \/ HandleAuthClick
    \/ \E b \in BOOLEAN : TokenCallback(b)
    \/ \E e \in AuthErrors : ErrorCallback(e)
    \/ \E s \in IdInputs : SetupSave(s)
    \/ HandleChangeSpreadsheet
    \/ \E t \in {"jobs", "calendar"} : SetActiveTab(t)
    \/ \E f \in FilterValues : SetActiveFilter(f)
    \/ \E i \in 1..Len(rendered) : HandleTaskClick(i)
    \/ HandleBackClick

Spec == Init /\ [][Next]_vars

(***************************************************************************)
(* SpecBoot: the hub from page load with every outcome of the loading of   *)
(* the Google libraries, the one initializeApis never hears of included    *)
(* (Spec and SpecPage follow the loads that end in its try or catch        *)
(* block).  The mount effects run after the first render, and every load   *)
(* ends, loaded or failed.                                                 *)
(***************************************************************************)
NextBoot == Next \/ ClientLoadFails

SpecBoot ==
    /\ Init
    /\ [][NextBoot]_vars
    /\ WF_vars(Boot)
    /\ WF_vars(InitSuccess \/ InitFail \/ ClientLoadFails)

(***************************************************************************)
(* SpecList: the filter and sort pipeline of the task list, applied to     *)
(* every short task list.  The hub is signed in with a spreadsheet id; a   *)
(* task is an assignee and a due date as the seed list or handleAddTask    *)
(* (which accepts any non-empty dueDate text) can supply them, named by    *)
(* its position in the list.                                               *)
(***************************************************************************)
ListAssignees == {TT, JESS}
ListDueDates == {NULL, "2025-10-24", "TBD"}

ListsOfLen(n) ==
    {[i \in 1..n |-> Task(ToString(i), "Low Priority", f[i][1], "Todo", f[i][2])] :
        f \in [1..n -> ListAssignees \X ListDueDates]}

InitList ==
    /\ tasks \in UNION {ListsOfLen(n) : n \in 0..MaxListLen}
    /\ error = NULL
    /\ activeTab = "jobs"
    /\ selectedTask = NULL
    /\ activeFilter = "all"
    /\ gapiReady = TRUE
    /\ isSignedIn = TRUE
    /\ spreadsheetId = "sheetA"
    /\ tokenClient = TRUE
    /\ storage = "sheetA"
    /\ bootPc = "done"
    /\ authPending = 0
    /\ newTaskInput = ""
    /\ isLoading = FALSE
    /\ extractPending = FALSE
    /\ rendered \in RenderOutcomes(tasks, activeTab, activeFilter)
    /\ detail = InitialDetail
    /\ net = NoRequests
    /\ gapi = GapiWith("valid", <<>>)
    /\ lastEvent = Event("load", NULL)

NextList ==
    \/ \E t \in {"jobs", "calendar"} : SetActiveTab(t)
    \/ \E f \in FilterValues : SetActiveFilter(f)

SpecList == InitList /\ [][NextList]_vars

(***************************************************************************)
(* SpecFetch and SpecSuggest: ProjectDetail, opened from the signed-in hub *)
(* with the seed task list.  SpecFetch: fetching the sub-tasks and adding  *)
(* one by hand.  SpecSuggest: the AI suggestions and their commit.         *)
(***************************************************************************)
MaxShown == 2
MaxRows == 2
MaxSuggestions == 2

ReadyHub ==
    /\ tasks = SeedTasks
    /\ error = NULL
    /\ activeTab = "jobs"
    /\ selectedTask = NULL
    /\ activeFilter = "all"
    /\ gapiReady = TRUE
    /\ isSignedIn = TRUE
    /\ spreadsheetId = "sheetA"
    /\ tokenClient = TRUE
    /\ storage = "sheetA"
    /\ bootPc = "done"
    /\ authPending = 0
    /\ newTaskInput = ""
    /\ isLoading = FALSE
    /\ extractPending = FALSE
    /\ rendered \in RenderOutcomes(tasks, activeTab, activeFilter)
    /\ detail = InitialDetail
    /\ net = NoRequests
    /\ lastEvent = Event("load", NULL)

InitReady == ReadyHub /\ gapi = GapiWith("valid", <<>>)

NextFetch ==
    \/ \E i \in 1..MaxShown : HandleTaskClick(i)
    \/ HandleBackClick
    \/ \E resp \in GetResponses(MaxRows) : FetchSuccess(resp)
    \/ \E err \in FetchErrors : FetchFail(err)
    \/ \E s \in NameInputs : SetNewSubTaskName(s)
    \/ HandleAddNewSubTask
    \/ AppendSuccess
    \/ AppendFail
    \/ OrphanAppendSuccess
    \/ OrphanAppendFail

SpecFetch == InitReady /\ [][NextFetch]_vars

NextSuggest ==
    \/ HandleTaskClick(1)
    \/ HandleBackClick
    \/ \E resp \in GetResponses(1) : FetchSuccess(resp)
    \/ \E err \in FetchErrors : FetchFail(err)
    \/ \E s \in GoalInputs : SetAiGoalInput(s)
    \/ HandleGenerateSubTasks
    \/ \E items \in SeqsUpTo(SuggestedItems, MaxSuggestions) : GenerateSuccess(items)
    \/ GenerateFail
    \/ \E i \in 1..MaxSuggestions : HandleToggleSuggestedTask(i)
    \/ HandleAddSelectedSubTasks
    \/ AppendSuccess
    \/ AppendFail
    \/ OrphanAppendSuccess
    \/ OrphanAppendFail

SpecSuggest == InitReady /\ [][NextSuggest]_vars

(***************************************************************************)
(* SpecEdit: the status and name edits of ProjectDetail over a tab whose   *)
(* rows only this page changes.  The tab is empty or holds one row: a      *)
(* write changes one cell of one row, so the rows do not interact.         *)
(***************************************************************************)
EditSheets == {<<>>} \cup {<<r>> : r \in Rows}

InitEdit ==
    ReadyHub /\ gapi \in {GapiWith("valid", sh) : sh \in EditSheets}

NextEdit ==
    \/ HandleTaskClick(1)
    \/ HandleBackClick
    \/ SheetRead
    \/ FetchFromSheet
    \/ \E k \in 1..Len(detail.subTasks) : HandleStatusChange(k)
    \/ \E k \in 1..Len(detail.subTasks), v \in NameEdits : HandleNameChange(k, v)
    \/ \E i \in 1..MaxWrites : WriteSuccess(i)
    \/ \E i \in 1..MaxWrites : WriteFail(i)

SpecEdit == InitEdit /\ [][NextEdit]_vars

(***************************************************************************)
(* SpecSheet: one visit of the detail view of a tab whose rows only this   *)
(* page changes, with edits and manual adds; no values.update is rejected. *)
(* The tab holds one row and grows up to MaxRows rows.  An edit is made    *)
(* when the write of the one before was answered, so that the order in     *)
(* which concurrent writes are applied plays no part.                      *)
(***************************************************************************)
InitSheet == ReadyHub /\ gapi = GapiWith("valid", <<Row("Buy props", "", "", "")>>)

NextSheet ==
    \/ HandleTaskClick(1)
    \/ SheetRead
    \/ FetchFromSheet
    \/ gapi.writes = <<>> /\ \E k \in 1..Len(detail.subTasks) : HandleStatusChange(k)
    \/ gapi.writes = <<>> /\ \E k \in 1..Len(detail.subTasks), v \in NameEdits :
                                HandleNameChange(k, v)
    \/ WriteSuccess(1)
    \/ \E s \in NameInputs : SetNewSubTaskName(s)
    \/ Len(gapi.sheet) < MaxRows /\ HandleAddNewSubTask
    \/ AppendSuccessOnSheet
    \/ AppendFail

SpecSheet == InitSheet /\ [][NextSheet]_vars

(***************************************************************************)
(* SpecRows: the edits of one visit of the detail view of a tab of three   *)
(* rows, the first without a name: two sub-tasks are displayed, with the   *)
(* row ids 3 and 4.                                                        *)
(***************************************************************************)
RowsTab == <<Row("", "", "", ""), Row("Buy props", "", "", ""), Row("Buy props", "", "Done", "")>>

NextRows ==
    \/ HandleTaskClick(1)
    \/ FetchSuccess(GetResponse(TRUE, RowsTab))
    \/ \E k \in 1..Len(detail.subTasks) : HandleStatusChange(k)
    \/ \E k \in 1..Len(detail.subTasks), v \in NameEdits : HandleNameChange(k, v)
    \/ \E i \in 1..MaxWrites : WriteSuccess(i)
    \/ \E i \in 1..MaxWrites : WriteFail(i)

SpecRows == InitReady /\ [][NextRows]_vars

(***************************************************************************)
(* SpecTask: the add-task form of the signed-in hub.                       *)
(***************************************************************************)
NextTask ==
    \/ \E s \in TaskInputs : SetNewTaskInput(s)
    \/ HandleAddTask
    \/ \E data \in TaskDatas : ExtractSuccess(data)
    \/ ExtractFail
    \/ \E t \in {"jobs", "calendar"} : SetActiveTab(t)
    \/ HandleTaskClick(1)
    \/ HandleBackClick
    \/ HandleChangeSpreadsheet
    \/ \E s \in IdInputs : SetupSave(s)

SpecTask == InitReady /\ [][NextTask]_vars

(***************************************************************************)
(* SpecPage: the whole page from its load: the hub of Spec with the        *)
(* add-task form and, in the detail view, the fetch and the generation.    *)
(***************************************************************************)
NextPage ==
    \/ Boot
    \/ InitSuccess
    \/ InitFail
    \/ HandleAuthClick
    \/ \E b \in BOOLEAN : TokenCallback(b)
    \/ \E e \in AuthErrors : ErrorCallback(e)
    \/ \E s \in IdInputs : SetupSave(s)
    \/ HandleChangeSpreadsheet
    \/ \E s \in TaskInputs : SetNewTaskInput(s)
    \/ HandleAddTask
    \/ \E data \in TaskDatas : ExtractSuccess(data)
    \/ ExtractFail
    \/ HandleTaskClick(1)
    \/ HandleBackClick
    \/ \E resp \in GetResponses(0) : FetchSuccess(resp)
    \/ \E err \in FetchErrors : FetchFail(err)
    \/ \E s \in GoalInputs : SetAiGoalInput(s)
    \/ HandleGenerateSubTasks
    \/ \E items \in SeqsUpTo(SuggestedItems, 1) : GenerateSuccess(items)
    \/ GenerateFail

SpecPage == Init /\ [][NextPage]_vars

(***************************************************************************)
(* SpecSession: from the sign-in prompt of an initialized page that holds  *)
(* a spreadsheet id, through the token's expiry: the detail view's fetch,  *)
(* status edits and manual add.                                            *)
(***************************************************************************)
InitSignedOut ==
    /\ tasks = SeedTasks
    /\ error = NULL
    /\ activeTab = "jobs"
    /\ selectedTask = NULL
    /\ activeFilter = "all"
    /\ gapiReady = TRUE
    /\ isSignedIn = FALSE
    /\ spreadsheetId = "sheetA"
    /\ tokenClient = TRUE
    /\ storage = "sheetA"
    /\ bootPc = "done"
    /\ authPending = 0
    /\ newTaskInput = ""
    /\ isLoading = FALSE
    /\ extractPending = FALSE
    /\ rendered = <<>>
    /\ detail = InitialDetail
    /\ net = NoRequests
    /\ gapi = GapiWith("none", <<>>)
    /\ lastEvent = Event("load", NULL)

NextSession ==
    \/ HandleAuthClick
    \/ \E b \in BOOLEAN : TokenCallback(b)
    \/ TokenExpires
    \/ HandleTaskClick(1)
    \/ HandleBackClick
    \/ \E resp \in GetResponses(1) : FetchSuccess(resp)
    \/ \E err \in FetchErrors : FetchFail(err)
    \/ HandleStatusChange(1)
    \/ \E i \in 1..MaxWrites : WriteSuccess(i)
    \/ \E i \in 1..MaxWrites : WriteFail(i)
    \/ \E s \in NameInputs : SetNewSubTaskName(s)
    \/ HandleAddNewSubTask
    \/ AppendSuccess
    \/ AppendFail
    \/ OrphanAppendSuccess
    \/ OrphanAppendFail

SpecSession == InitSignedOut /\ [][NextSession]_vars

(***************************************************************************)
(* SpecForm: SpecFetch with all three inputs of the add form.              *)
(***************************************************************************)
NextForm ==
    \/ NextFetch
    \/ \E s \in AssigneeInputs : SetNewSubTaskAssignee(s)
    \/ \E s \in DueDateInputs : SetNewSubTaskDueDate(s)

SpecForm == InitReady /\ [][NextForm]_vars

(***************************************************************************)
(* SpecSuggestAny: SpecSuggest with every array the schema admits.         *)
(***************************************************************************)
NextSuggestAny ==
    \/ NextSuggest
    \/ \E items \in SeqsUpTo(AnySuggestedItems, MaxSuggestions) : GenerateSuccess(items)

SpecSuggestAny == InitReady /\ [][NextSuggestAny]_vars

(***************************************************************************)
(* SpecAdd: both ways of adding sub-tasks, the form and the suggestions,   *)
(* during one visit of the detail view.                                    *)
(***************************************************************************)
NextAdd ==
    \/ HandleTaskClick(1)
    \/ \E resp \in GetResponses(1) : FetchSuccess(resp)
    \/ \E err \in FetchErrors : FetchFail(err)
    \/ \E s \in GoalInputs : SetAiGoalInput(s)
    \/ HandleGenerateSubTasks
    \/ \E items \in SeqsUpTo(SuggestedItems, MaxSuggestions) : GenerateSuccess(items)
    \/ GenerateFail
    \/ \E i \in 1..MaxSuggestions : HandleToggleSuggestedTask(i)
    \/ HandleAddSelectedSubTasks
    \/ \E s \in NameInputs : SetNewSubTaskName(s)
    \/ HandleAddNewSubTask
    \/ AppendSuccess
    \/ AppendFail

SpecAdd == InitReady /\ [][NextAdd]_vars

\* a request is answered before the page can issue the next one of its kind,
\* and no sub-task is added while the sub-tasks are being fetched
RequestsOneAtATime ==
    /\ Len(net.appends) <= 1
    /\ net.fetch # "none" => net.appends = <<>> /\ detail.isLoading
    /\ net.appends # <<>> => detail.isAdding
    /\ net.generate = detail.isGenerating
    /\ View # "TaskDetail" => detail = InitialDetail /\ net = NoRequests

(***************************************************************************)
(* Claims about the rendered task list.                                    *)
(***************************************************************************)
ListShown == View = "TaskList" /\ activeTab = "jobs"

\* the task has a due date: what the comparator and the due-date label test
HasDueDate(t) == Truthy(t.dueDate)

\* the position of a rendered task in tasks (names are unique in the model)
PositionInTasks(t) == CHOOSE i \in 1..Len(tasks) : tasks[i].name = t.name

DueDateOrdered(r) ==
    \A i, j \in 1..Len(r) :
        i < j =>
            /\ (GetTime(r[i].dueDate).k = "fin" /\ GetTime(r[j].dueDate).k = "fin"
                    => GetTime(r[i].dueDate).v <= GetTime(r[j].dueDate).v)
            /\ (HasDueDate(r[j]) => HasDueDate(r[i]))

\* C1: for every task list and every filter, the rendered list is
\* non-decreasing in due date over the tasks that have one, and every task
\* without a due date comes after all tasks that have one.
C1_RenderedOrderedByDueDate == ListShown => DueDateOrdered(rendered)

\* C2: the rendered list holds every task under the filter "all", exactly the
\* tasks whose assignee equals the filter otherwise, and keeps the due-date order.
C2_FilterExactAndOrdered ==
    ListShown =>
        /\ {t.name : t \in Elems(rendered)} =
               {t.name : t \in {u \in Elems(tasks) :
                                   activeFilter = "all" \/ u.assignee = activeFilter}}
        /\ \A i, j \in 1..Len(rendered) : rendered[i].name = rendered[j].name => i = j
        /\ rendered \in Seq(Elems(tasks))
        /\ DueDateOrdered(rendered)

\* C3: the sort is stable: two tasks with the same due date, or both without
\* one, are rendered in their order in tasks.
C3_SortStable ==
    ListShown =>
        \A i, j \in 1..Len(rendered) :
            /\ i < j
            /\ \/ rendered[i].dueDate = rendered[j].dueDate
               \/ ~HasDueDate(rendered[i]) /\ ~HasDueDate(rendered[j])
            => PositionInTasks(rendered[i]) < PositionInTasks(rendered[j])

\* All three hold of every task list whose due dates parse as dates: the
\* comparator is then consistent and the sort is the stable sort.
DueDatesParse == \A t \in Elems(tasks) : HasDueDate(t) => GetTime(t.dueDate).k = "fin"

ListClaimsWhenDueDatesParse ==
    DueDatesParse =>
        C1_RenderedOrderedByDueDate /\ C2_FilterExactAndOrdered /\ C3_SortStable

\* The filter part of C2 holds of every task list.
FilterExact ==
    ListShown =>
        /\ {t.name : t \in Elems(rendered)} =
               {t.name : t \in {u \in Elems(tasks) :
                                   activeFilter = "all" \/ u.assignee = activeFilter}}
        /\ Len(rendered) = Cardinality({t.name : t \in Elems(rendered)})

(***************************************************************************)
(* Claims about the hub's views and the identity session.                  *)
(***************************************************************************)
\* C4: exactly one view is rendered, chosen by strict precedence:
\* Initializing when the identity session is not ready, else SignedOut when not
\* signed in, else NeedsSetup when no spreadsheet id is held, else TaskDetail
\* when a task is selected, else TaskList.  TaskDetail is never rendered while
\* signed out or without a spreadsheet id.
C4_ViewByPrecedence ==
    /\ View \in {"Initializing", "SignedOut", "NeedsSetup", "TaskDetail", "TaskList"}
    /\ ~gapiReady => View = "Initializing"
    /\ gapiReady /\ ~isSignedIn => View = "SignedOut"
    /\ gapiReady /\ isSignedIn /\ spreadsheetId = NULL => View = "NeedsSetup"
    /\ gapiReady /\ isSignedIn /\ spreadsheetId # NULL /\ selectedTask # NULL
          => View = "TaskDetail"
    /\ gapiReady /\ isSignedIn /\ spreadsheetId # NULL /\ selectedTask = NULL
          => View = "TaskList"
    /\ View = "TaskDetail" => isSignedIn /\ spreadsheetId # NULL /\ spreadsheetId # ""

C4_Witness ==
    /\ View = "TaskDetail"
    /\ lastEvent.op = "HandleTaskClick"
    /\ storage = spreadsheetId

\* C5 as claimed: from any ready state, TaskList and TaskDetail alike, the
\* "change spreadsheet" action can be taken.
C5_ChangeFromAnyReadyState ==
    View \in {"TaskList", "TaskDetail"} => ENABLED HandleChangeSpreadsheet

\* C5 as amended: the "change spreadsheet" action can be taken in the TaskList
\* view and not in the TaskDetail view; it leads to NeedsSetup with the
\* spreadsheet id cleared in memory and in local storage.
C5_ChangeFromTaskList ==
    /\ [](View = "TaskList" => ENABLED HandleChangeSpreadsheet)
    /\ [](View = "TaskDetail" => ~ENABLED HandleChangeSpreadsheet)
    /\ [][HandleChangeSpreadsheet =>
            /\ View = "TaskList"
            /\ View' = "NeedsSetup"
            /\ spreadsheetId' = NULL
            /\ storage' = NULL]_vars

C5_Witness ==
    /\ lastEvent.op = "HandleChangeSpreadsheet"
    /\ View = "NeedsSetup"
    /\ storage = NULL

\* the identity flow's signals of a popup closed by the user
UserCancellations ==
    {e \in AuthErrors : e.type = "popup_closed" \/ e.str = "popup_closed_by_user"}

\* C6: when the identity flow reports a user cancellation, the hub error is
\* cleared to null, the signed-in flag does not change, and while signed out
\* the sign-in prompt can still issue a request.
C6_CancellationClearsError ==
    [][\A e \in UserCancellations :
          ErrorCallback(e) =>
              /\ error' = NULL
              /\ isSignedIn' = isSignedIn
              /\ ~isSignedIn => CanSignIn' /\ authPending' < MaxAuthPending]_vars

C6_Witness ==
    /\ lastEvent.op = "ErrorCallback"
    /\ lastEvent.arg \in UserCancellations
    /\ ~isSignedIn
    /\ error = NULL
    /\ ENABLED HandleAuthClick

(***************************************************************************)
(* Claims about ProjectDetail: fetching the sub-tasks.                     *)
(***************************************************************************)
\* C7: when the fetch of a task's sub-tasks fails with the tab-not-found
\* response, error becomes the message that names the selected task, isLoading
\* becomes false, and subTasks stays as it was.
C7_TabNotFoundNamesTask ==
    [][FetchFail(TabNotFound) =>
          /\ detail'.error = "Could not find a sheet named \"" \o selectedTask \o
                 "\". Make sure a tab in your Google Sheet exactly matches the project name."
          /\ ~detail'.isLoading
          /\ detail'.subTasks = detail.subTasks]_vars

\* a refetch was answered tab-not-found while sub-tasks were listed
C7_Witness ==
    /\ lastEvent.op = "FetchFail"
    /\ lastEvent.arg = TabNotFound
    /\ detail.subTasks # <<>>
    /\ detail.error = NotFoundText(selectedTask)
    /\ ~detail.isLoading

\* C8: a failed fetch shows the not-found message only when the tab does not
\* exist; every other failure shows the generic could-not-load message, which
\* differs from the not-found one; after every failed fetch error is not null
\* and isLoading is false.
C8_NotFoundOnlyWhenTabMissing ==
    lastEvent.op = "FetchFail" =>
        /\ detail.error = NotFoundText(selectedTask) <=> lastEvent.arg = TabNotFound
        /\ lastEvent.arg # TabNotFound => detail.error = LoadFailedText
        /\ LoadFailedText # NotFoundText(selectedTask)
        /\ detail.error # NULL
        /\ ~detail.isLoading

\* the second sentence of C8 alone: every failed fetch leaves an error and ends
\* the loading
FailedFetchShowsError ==
    lastEvent.op = "FetchFail" => detail.error # NULL /\ ~detail.isLoading

\* C9: after a successful fetch subTasks holds exactly the fetched rows with a
\* non-empty name cell, in sheet order, and the id of each is its sheet row:
\* its position in the fetched range (from 0) plus 2.
C9_KeptRowsKeepSheetRowNumbers ==
    lastEvent.op = "FetchSuccess" =>
        LET values == IF lastEvent.arg.hasValues THEN lastEvent.arg.values ELSE <<>>
            st == detail.subTasks
            Position(t) == t.id - 2
        IN  /\ \A k \in 1..Len(st) :
                  /\ Position(st[k]) \in 0..(Len(values) - 1)
                  /\ values[Position(st[k]) + 1].name = st[k].name
                  /\ st[k].name # ""
            /\ \A p \in 0..(Len(values) - 1) :
                  values[p + 1].name # "" => \E k \in 1..Len(st) : Position(st[k]) = p
            /\ \A j, k \in 1..Len(st) : j < k => Position(st[j]) < Position(st[k])

\* a row with an empty name precedes a kept row
C9_Witness ==
    /\ lastEvent.op = "FetchSuccess"
    /\ lastEvent.arg.hasValues
    /\ Len(lastEvent.arg.values) = 2
    /\ lastEvent.arg.values[1].name = ""
    /\ lastEvent.arg.values[2].name = "Buy props"
    /\ Len(detail.subTasks) = 1
    /\ detail.subTasks[1].id = 3

(***************************************************************************)
(* Claims about ProjectDetail: committing the AI suggestions.              *)
(***************************************************************************)
\* the positions of the selected suggestions
SelectedPositions ==
    {i \in 1..Len(detail.suggestedSubTasks) :
        detail.suggestedSubTasks[i].id \in detail.selectedSubTasks}

\* C10: committing N >= 1 selected suggestions issues exactly one append call
\* with exactly N rows, one per selected suggestion and none for an unselected
\* one; when that call succeeds the suggestions and the selection are emptied
\* and a fetch of the sheet is issued; with N = 0 no append call is issued.
C10_CommitIsOneBatchedAppend ==
    /\ [][HandleAddSelectedSubTasks /\ Cardinality(detail.selectedSubTasks) >= 1 =>
             /\ Len(net'.appends) = Len(net.appends) + 1
             /\ SubSeq(net'.appends, 1, Len(net.appends)) = net.appends
             /\ LET rows == net'.appends[Len(net'.appends)].rows
                IN  /\ Len(rows) = Cardinality(detail.selectedSubTasks)
                    /\ \A k \in 1..Len(rows) :
                          \E i \in SelectedPositions :
                              /\ Cardinality({j \in SelectedPositions : j <= i}) = k
                              /\ rows[k].name = detail.suggestedSubTasks[i].name
                              /\ rows[k].status = "Todo"]_vars
    /\ [][AppendSuccess /\ Head(net.appends).from = "selected" =>
             /\ detail'.suggestedSubTasks = <<>>
             /\ detail'.selectedSubTasks = {}
             /\ net.fetch = "none" /\ net'.fetch # "none"]_vars
    /\ [][Cardinality(detail.selectedSubTasks) = 0 =>
             Len(net'.appends) <= Len(net.appends)]_vars

\* one of two suggestions was selected and committed
C10_Witness ==
    /\ lastEvent.op = "HandleAddSelectedSubTasks"
    /\ Len(detail.suggestedSubTasks) = 2
    /\ detail.selectedSubTasks = {"gen-1"}
    /\ Len(net.appends) = 1
    /\ Len(net.appends[1].rows) = 1
    /\ net.appends[1].rows[1].name = detail.suggestedSubTasks[2].name

\* the committed call succeeded: nothing is suggested and the sheet is fetched
CommitSucceeded ==
    /\ lastEvent.op = "AppendSuccess"
    /\ lastEvent.arg.from = "selected"
    /\ detail.suggestedSubTasks = <<>>
    /\ detail.selectedSubTasks = {}
    /\ net.fetch = "add"

(***************************************************************************)
(* Claims about ProjectDetail: editing a sub-task.                         *)
(***************************************************************************)
\* the status subTasks holds for the sub-task of row id
StatusOf(d, id) == (CHOOSE st \in Elems(d.subTasks) : st.id = id).status

\* the step toggles the checkbox that the step before toggled
SecondToggle ==
    /\ lastEvent.op = "HandleStatusChange"
    /\ \E k \in 1..Len(detail.subTasks) :
          HandleStatusChange(k) /\ detail.subTasks[k].id = lastEvent.arg.id

\* C11: toggling a sub-task's done checkbox twice returns its local status to
\* the status it had before the first toggle, whichever of Todo, In Progress
\* and Done that was.
C11_DoubleToggleRestoresStatus ==
    [][SecondToggle => StatusOf(detail', lastEvent.arg.id) = lastEvent.arg.before]_vars

\* the round trip from the two statuses the checkbox can write
DoubleToggleRestoresWrittenStatus ==
    [][SecondToggle /\ lastEvent.arg.before \in {"In Progress", "Done"} =>
          StatusOf(detail', lastEvent.arg.id) = lastEvent.arg.before]_vars

\* the name subTasks holds for the sub-task of row id
NameOf(d, id) == (CHOOSE st \in Elems(d.subTasks) : st.id = id).name

\* the values.update call issued last
LastWrite(g) == g.writes[Len(g.writes)]

\* C12: a status or name edit changes the local sub-task list while its write
\* is still in flight, and when a write fails the failure is reported by an
\* alert, the write is not issued again, and the local sub-task list keeps
\* the edited value.
C12_OptimisticEditNoRollback ==
    /\ [][\A k \in 1..Len(detail.subTasks) :
             LET id == detail.subTasks[k].id
             IN  /\ HandleStatusChange(k) =>
                       /\ StatusOf(detail', id) # StatusOf(detail, id)
                       /\ Len(gapi'.writes) = Len(gapi.writes) + 1
                       /\ LastWrite(gapi').value = StatusOf(detail', id)
                       /\ gapi'.sheet = gapi.sheet
                 /\ (\E v \in NameEdits : HandleNameChange(k, v)) =>
                       /\ NameOf(detail', id) # NameOf(detail, id)
                       /\ Len(gapi'.writes) = Len(gapi.writes) + 1
                       /\ LastWrite(gapi').value = NameOf(detail', id)
                       /\ gapi'.sheet = gapi.sheet]_vars
    /\ [][\A i \in 1..Len(gapi.writes) :
             WriteFail(i) =>
                 /\ lastEvent'.alert = "Failed to save changes. Please try again."
                 /\ gapi'.writes = RemoveAt(gapi.writes, i)
                 /\ gapi'.sheet = gapi.sheet
                 /\ detail' = detail]_vars

\* the write of a status edit failed: the list shows the edited status, the
\* sheet the one before
C12_Witness ==
    /\ lastEvent.op = "WriteFail"
    /\ lastEvent.arg.column = "C"
    /\ View = "TaskDetail"
    /\ gapi.writes = <<>>
    /\ Len(detail.subTasks) = 1
    /\ detail.subTasks[1].status = lastEvent.arg.value
    /\ gapi.sheet[lastEvent.arg.row - 1].status # lastEvent.arg.value

(***************************************************************************)
(* Claims about ProjectDetail: adding sub-tasks.                           *)
(***************************************************************************)
\* C13: when an append call fails, of a manual add or of a commit of the
\* selected suggestions, the failure is reported by an alert, subTasks is
\* unchanged, no fetch is issued, the form inputs, the suggestions and the
\* selection are unchanged, and isAdding returns to false.
C13_FailedAppendChangesOnlyIsAdding ==
    [][AppendFail =>
          /\ lastEvent'.alert =
                 IF Head(net.appends).from = "manual"
                 THEN "Could not add the new sub-task. Please try again."
                 ELSE "Could not add the selected sub-tasks. Please try again."
          /\ detail.isAdding /\ ~detail'.isAdding
          /\ detail' = [detail EXCEPT !.isAdding = FALSE]
          /\ net.fetch = "none" /\ net'.fetch = "none"
          /\ net'.appends = Tail(net.appends)]_vars

\* the commit of one of two suggestions failed
C13_Witness ==
    /\ lastEvent.op = "AppendFail"
    /\ lastEvent.arg.from = "selected"
    /\ Len(detail.suggestedSubTasks) = 2
    /\ Cardinality(detail.selectedSubTasks) = 1
    /\ ~detail.isAdding
    /\ net.appends = <<>>
    /\ net.fetch = "none"

\* a manual add failed: the form keeps the typed name
ManualAddFailed ==
    /\ lastEvent.op = "AppendFail"
    /\ lastEvent.arg.from = "manual"
    /\ detail.newSubTaskName = "Buy props"
    /\ ~detail.isAdding
    /\ net.fetch = "none"

\* C14: when the append of a manual add succeeds the three form inputs are
\* cleared and a fetch is issued, subTasks changes only with the response to a
\* fetch (never by a local insert), and an add with a blank or whitespace-only
\* name issues no append call and changes no state.
C14_ManualAddRefetches ==
    /\ [][AppendSuccess /\ Head(net.appends).from = "manual" =>
             /\ detail'.newSubTaskName = ""
             /\ detail'.newSubTaskAssignee = ""
             /\ detail'.newSubTaskDueDate = ""
             /\ net.fetch = "none" /\ net'.fetch # "none"
             /\ detail'.subTasks = detail.subTasks]_vars
    /\ [][detail'.subTasks # detail.subTasks =>
             \/ \E resp \in GetResponses(MaxRows) : FetchSuccess(resp)
             \/ HandleBackClick]_vars
    /\ [][HandleAddNewSubTask /\ detail.newSubTaskName \in {"", " "} =>
             UNCHANGED <<hubVars, detail, net, gapi>>]_vars

\* the append of a filled form succeeded
C14_Witness ==
    /\ lastEvent.op = "AppendSuccess"
    /\ lastEvent.arg.from = "manual"
    /\ lastEvent.arg.rows[1].name = "Buy props"
    /\ lastEvent.arg.rows[1].assignee = "Jess"
    /\ lastEvent.arg.rows[1].dueDate = "2025-11-01"
    /\ detail.newSubTaskName = ""
    /\ detail.newSubTaskAssignee = ""
    /\ detail.newSubTaskDueDate = ""
    /\ net.fetch = "add"

\* the add button was clicked over a whitespace-only name
BlankAddRefused ==
    /\ lastEvent.op = "HandleAddNewSubTask"
    /\ detail.newSubTaskName = " "
    /\ lastEvent.alert = "Please enter a task name."
    /\ net.appends = <<>>

(***************************************************************************)
(* Claims about the hub's add-task form.                                   *)
(***************************************************************************)
\* the four required fields of the extraction are present
AllRequiredFields(data) ==
    Truthy(data.name) /\ Truthy(data.assignee) /\ Truthy(data.dueDate)
        /\ Truthy(data.priority)

\* C15: the extraction appends a task to tasks only when the parsed result
\* has name, assignee, dueDate and priority; on a service failure, an
\* unparsable answer or a result that misses a required field tasks is
\* unchanged and error is the could-not-understand message.
C15_TaskAppendedOnlyWhenComplete ==
    /\ [][tasks' # tasks =>
             \E data \in TaskDatas : ExtractSuccess(data) /\ AllRequiredFields(data)]_vars
    /\ [][\/ ExtractFail
          \/ \E data \in TaskDatas : ExtractSuccess(data) /\ ~AllRequiredFields(data)
          => tasks' = tasks /\ error' = UnderstandErrorText]_vars

\* the claim for the three fields the page tests
TaskAppendedOnlyWhenAccepted ==
    /\ [][tasks' # tasks =>
             \E data \in TaskDatas : ExtractSuccess(data) /\ TaskDataAccepted(data)]_vars
    /\ [][\/ ExtractFail
          \/ \E data \in TaskDatas : ExtractSuccess(data) /\ ~TaskDataAccepted(data)
          => tasks' = tasks /\ error' = UnderstandErrorText]_vars

\* a task without a priority is in the list, and the list shown is the one
\* rendered before it was added
TaskWithoutPriorityAdded ==
    /\ lastEvent.op = "ExtractSuccess"
    /\ tasks[Len(tasks)].priority = NULL
    /\ View = "TaskList" /\ activeTab = "jobs"
    /\ Len(rendered) < Len(tasks)

(***************************************************************************)
(* Claims about the AI suggestions, for every array the assistant can      *)
(* answer with.                                                            *)
(***************************************************************************)
\* C16: no commit of the selected suggestions appends a row whose name cell
\* is empty, whatever the assistant returned.
C16_CommittedRowsHaveNames ==
    \A i \in 1..Len(net.appends) :
        net.appends[i].from = "selected" =>
            \A k \in 1..Len(net.appends[i].rows) : net.appends[i].rows[k].name # ""

(***************************************************************************)
(* Claims about the displayed sub-tasks.                                   *)
(***************************************************************************)
\* C17: in every state of the detail view, after any fetches, status toggles
\* and name edits, every sub-task of subTasks has a non-empty name.
C17_DisplayedSubTasksHaveNames ==
    \A k \in 1..Len(detail.subTasks) : detail.subTasks[k].name # ""

\* the invariant right after a fetch
FetchedSubTasksHaveNames ==
    lastEvent.op = "FetchSuccess" =>
        \A k \in 1..Len(detail.subTasks) : detail.subTasks[k].name # ""

(***************************************************************************)
(* Claims about errors and the session, over the whole page.               *)
(***************************************************************************)
\* the view offers a control the user can use: the sign-in button unless it
\* is disabled, the setup form, the task list's header, tabs and form, the
\* detail view's back button
CanDispatch ==
    \/ CanSignIn
    \/ View \in {"NeedsSetup", "TaskList", "TaskDetail"}

\* a request failed or an error is shown
AfterFailure ==
    \/ lastEvent.op \in {"InitFail", "ErrorCallback", "ExtractFail", "FetchFail",
                         "GenerateFail", "AppendFail"}
    \/ error # NULL
    \/ detail.error # NULL
    \/ detail.generationError # NULL

\* every attempt of an action clears the error of the attempt before
ErrorsClearedByNextAttempt ==
    /\ [][HandleAuthClick => error' = NULL]_vars
    /\ [][HandleAddTask /\ extractPending' => error' = NULL]_vars
    /\ [][net.fetch = "none" /\ net'.fetch # "none" => detail'.error = NULL]_vars
    /\ [][~net.generate /\ net'.generate => detail'.generationError = NULL]_vars

\* C18: a new sign-in attempt and a new add-task attempt reset the hub error
\* to null before their request, a new fetch resets the detail error, a new
\* generation resets the generation error, and after no failure is the view
\* left without an action the user can dispatch.
C18_ErrorsClearedAndViewUsable ==
    /\ ErrorsClearedByNextAttempt
    /\ [](AfterFailure => CanDispatch)

\* initialization failed: the sign-in prompt is shown with its button disabled
InitFailedNoControl ==
    /\ lastEvent.op = "InitFail"
    /\ View = "SignedOut"
    /\ ~tokenClient
    /\ error # NULL

\* C19: once signed in the session stays signed in; reads, writes and appends
\* sent with the expired token fail and are reported only by the generic
\* load error and the save and add alerts; the hub never shows the sign-in
\* prompt again, and a token request is issued only by a click on the
\* sign-in button.
C19_SignedInForTheRestOfTheRun ==
    /\ [][isSignedIn => isSignedIn']_vars
    /\ [](isSignedIn => View # "SignedOut" /\ ~CanSignIn)
    /\ [][authPending' > authPending => HandleAuthClick /\ ~isSignedIn]_vars
    /\ [][net.fetch # "none" /\ ~net.fetchAuth /\ net'.fetch = "none"
             /\ View' = "TaskDetail" =>
                 /\ detail'.error = LoadFailedText
                 /\ detail'.subTasks = detail.subTasks
                 /\ isSignedIn']_vars
    /\ [][\A i \in 1..Len(gapi.writes) :
             ~gapi.writes[i].auth /\ gapi'.writes = RemoveAt(gapi.writes, i) =>
                 /\ lastEvent'.alert = "Failed to save changes. Please try again."
                 /\ gapi'.sheet = gapi.sheet
                 /\ isSignedIn']_vars
    /\ [][net.appends # <<>> /\ ~Head(net.appends).auth /\ net'.appends = <<>>
             /\ View' = "TaskDetail" =>
                 /\ lastEvent'.alert = "Could not add the new sub-task. Please try again."
                 /\ net'.fetch = "none"
                 /\ isSignedIn']_vars

\* a fetch sent with the expired token failed: the generic error is shown and
\* the session is still signed in
C19_Witness ==
    /\ lastEvent.op = "FetchFail"
    /\ gapi.token = "expired"
    /\ isSignedIn
    /\ View = "TaskDetail"
    /\ detail.error = LoadFailedText
    /\ authPending = 0

\* a write and an append sent with the expired token failed
ExpiredWriteFailed ==
    /\ lastEvent.op = "WriteFail"
    /\ ~lastEvent.arg.auth
    /\ isSignedIn

ExpiredAppendFailed ==
    /\ lastEvent.op = "AppendFail"
    /\ ~lastEvent.arg.auth
    /\ isSignedIn

(***************************************************************************)
(* Claims about concurrent writes.                                         *)
(***************************************************************************)
\* the cell of the rows sh the write w addresses
CellOf(sh, w) == IF w.column = "A" THEN sh[w.row - 1].name ELSE sh[w.row - 1].status

\* C20: writes to the same row can be in flight together; any of them can be
\* applied next, none is rejected or dropped because of another, the cell
\* takes the value of the write applied (so the one applied last stays), and
\* the answers leave the local sub-task list as the last edit set it.
C20_LastWriteWins ==
    /\ [](\A i \in 1..Len(gapi.writes) : gapi.writes[i].auth => ENABLED WriteSuccess(i))
    /\ [][\A i \in 1..Len(gapi.writes) :
             WriteSuccess(i) =>
                 /\ gapi.writes[i].task = SheetTab
                        /\ gapi.writes[i].row - 1 \in 1..Len(gapi.sheet) =>
                            CellOf(gapi'.sheet, gapi.writes[i]) = gapi.writes[i].value
                 /\ gapi'.writes = RemoveAt(gapi.writes, i)
                 /\ detail' = detail]_vars

\* of two status writes to one row the later one was applied first: the list
\* shows its value, and the earlier write can still be applied
C20_Witness ==
    /\ lastEvent.op = "WriteSuccess"
    /\ lastEvent.arg.column = "C"
    /\ View = "TaskDetail"
    /\ Len(detail.subTasks) = 1
    /\ detail.subTasks[1].id = lastEvent.arg.row
    /\ detail.subTasks[1].status = lastEvent.arg.value
    /\ Len(gapi.writes) = 1
    /\ gapi.writes[1].row = lastEvent.arg.row
    /\ gapi.writes[1].column = "C"
    /\ gapi.writes[1].value # lastEvent.arg.value
    /\ gapi.writes[1].auth

\* both were applied, the earlier one last: the sheet and the list differ
EarlierWriteAppliedLast ==
    /\ lastEvent.op = "WriteSuccess"
    /\ lastEvent.arg.column = "C"
    /\ View = "TaskDetail"
    /\ gapi.writes = <<>>
    /\ Len(detail.subTasks) = 1
    /\ detail.subTasks[1].status = "In Progress"
    /\ gapi.sheet[detail.subTasks[1].id - 1].status = "Done"

(***************************************************************************)
(* Claims about requests in flight when the view changes.                  *)
(***************************************************************************)
\* the answer to the add-task request is handled
ExtractAnswered ==
    \/ ExtractFail
    \/ \E data \in TaskDatas : ExtractSuccess(data)

\* C21: no user action cancels the add-task request in flight: selecting a
\* task or changing the spreadsheet leaves it pending with isLoading set,
\* only its answer ends it, and in whatever view the answer is handled it
\* appends the task or sets the error, and resets isLoading.
C21_AddTaskRequestSurvivesViewChange ==
    /\ [](extractPending => isLoading)
    /\ [][extractPending /\ ~ExtractAnswered => extractPending' /\ isLoading']_vars
    /\ [][extractPending /\ (HandleTaskClick(1) \/ HandleChangeSpreadsheet) =>
             /\ View' # "TaskList"
             /\ extractPending'
             /\ UNCHANGED <<tasks, error, newTaskInput>>]_vars
    /\ [][\A data \in TaskDatas :
             ExtractSuccess(data) =>
                 /\ ~isLoading' /\ ~extractPending'
                 /\ IF TaskDataAccepted(data)
                    THEN /\ Len(tasks') = Len(tasks) + 1
                         /\ tasks'[Len(tasks')].name = data.name
                         /\ SubSeq(tasks', 1, Len(tasks)) = tasks
                    ELSE tasks' = tasks /\ error' = UnderstandErrorText]_vars
    /\ [][ExtractFail =>
             /\ ~isLoading' /\ ~extractPending'
             /\ tasks' = tasks
             /\ error' = UnderstandErrorText]_vars

\* the answer arrived after the user had selected a task: the task is in the
\* list although the detail view is rendered
C21_Witness ==
    /\ lastEvent.op = "ExtractSuccess"
    /\ View = "TaskDetail"
    /\ Len(tasks) = Len(SeedTasks) + 1
    /\ ~isLoading

\* the request failed after the user had asked for another spreadsheet
AddTaskFailedInSetup ==
    /\ lastEvent.op = "ExtractFail"
    /\ View = "NeedsSetup"
    /\ error = UnderstandErrorText
    /\ ~isLoading

\* the unmount of ProjectDetail cancels nothing either: its values.update
\* calls stay in flight, its values.append becomes the orphan followed, and
\* both can be answered in every view
UnmountCancelsNothing ==
    /\ [][HandleBackClick =>
             /\ gapi'.writes = gapi.writes
             /\ net.appends # <<>> =>
                    /\ Len(gapi'.orphans) = Len(net.appends)
                    /\ gapi'.orphans[1].from = net.appends[1].from]_vars
    /\ [](\A i \in 1..Len(gapi.writes) : ENABLED WriteFail(i))
    /\ [](gapi.orphans # <<>> => ENABLED OrphanAppendFail)

\* the append of an unmounted ProjectDetail failed while the task list was shown
OrphanAlertInTaskList ==
    /\ lastEvent.op = "OrphanAppendFail"
    /\ lastEvent.alert = "Could not add the new sub-task. Please try again."
    /\ View = "TaskList"

(***************************************************************************)
(* Claims about the spreadsheet id.                                        *)
(***************************************************************************)
\* C22: once the mount effect has read localStorage, the spreadsheet id in
\* memory is the stored one (both absent or the same text); the signed-in hub
\* shows the setup view exactly when it is absent; a stored id is a non-empty
\* trimmed text, and a blank text saved in the setup view stores nothing.
C22_SpreadsheetIdIsTheStoredId ==
    /\ [](bootPc # "mount" => spreadsheetId = storage)
    /\ [](View = "NeedsSetup" <=> gapiReady /\ isSignedIn /\ spreadsheetId = NULL)
    /\ [](storage # NULL => storage # "" /\ Trim(storage) = storage)
    /\ [][\A s \in IdInputs :
             SetupSave(s) /\ Trim(s) = "" =>
                 /\ UNCHANGED <<storage, spreadsheetId>>
                 /\ lastEvent'.alert = "Please enter a valid Spreadsheet ID."]_vars

\* an id typed between spaces was saved
C22_Witness ==
    /\ lastEvent.op = "SetupSave"
    /\ lastEvent.arg = " sheetA "
    /\ storage = "sheetA"
    /\ spreadsheetId = "sheetA"
    /\ View = "TaskList"

\* a blank text was refused in the setup view
BlankIdRefused ==
    /\ lastEvent.op = "SetupSave"
    /\ lastEvent.arg = " "
    /\ lastEvent.alert = "Please enter a valid Spreadsheet ID."
    /\ storage = NULL
    /\ View = "NeedsSetup"

(***************************************************************************)
(* Claims about the write of a row-level edit.                             *)
(***************************************************************************)
\* the sub-tasks b are the sub-tasks a but for the entry at k
OnlyEntryChanged(a, b, k) ==
    /\ Len(b) = Len(a)
    /\ \A j \in 1..Len(a) : j # k => b[j] = a[j]

\* the calls in flight b are the calls a and then the one call w
OneWriteIssued(a, b, w) == b = Append(a, w)

\* C23: a status toggle or a name edit of a displayed sub-task issues exactly
\* one values.update call, for the one cell of the sub-task's own row id in
\* the tab of the selected task: column C with the new status, column A with
\* the new name; in the local list only the edited entry changes, and only in
\* the edited field.
C23_EditIsOneSingleCellWrite ==
    /\ [][\A k \in 1..Len(detail.subTasks) :
             LET st == detail.subTasks[k]
                 newStatus == IF st.status = "Done" THEN "In Progress" ELSE "Done"
             IN  HandleStatusChange(k) =>
                     /\ OneWriteIssued(gapi.writes, gapi'.writes,
                                       Write(selectedTask, st.id, "C", newStatus))
                     /\ OnlyEntryChanged(detail.subTasks, detail'.subTasks, k)
                     /\ detail'.subTasks[k] = [st EXCEPT !.status = newStatus]
                     /\ gapi'.sheet = gapi.sheet]_vars
    /\ [][\A k \in 1..Len(detail.subTasks), v \in NameEdits :
             LET st == detail.subTasks[k]
             IN  HandleNameChange(k, v) =>
                     /\ OneWriteIssued(gapi.writes, gapi'.writes,
                                       Write(selectedTask, st.id, "A", v))
                     /\ OnlyEntryChanged(detail.subTasks, detail'.subTasks, k)
                     /\ detail'.subTasks[k] = [st EXCEPT !.name = v]
                     /\ gapi'.sheet = gapi.sheet]_vars

\* the second displayed sub-task, of row 4, was renamed while the write of a
\* status toggle of the first, of row 3, was in flight: two calls, one cell each
C23_Witness ==
    /\ lastEvent.op = "HandleNameChange"
    /\ lastEvent.arg.id = 4
    /\ Len(gapi.writes) = 2
    /\ gapi.writes[1].row = 3 /\ gapi.writes[1].column = "C" /\ gapi.writes[1].value = "Done"
    /\ gapi.writes[2].row = 4 /\ gapi.writes[2].column = "A" /\ gapi.writes[2].value = "Rent a van"
    /\ detail.subTasks[1].status = "Done" /\ detail.subTasks[1].name = "Buy props"
    /\ detail.subTasks[2].status = "Done" /\ detail.subTasks[2].name = "Rent a van"

(***************************************************************************)
(* Claims about the hub task list.                                         *)
(***************************************************************************)
\* C24: the hub task list only grows: an accepted answer to add-task appends
\* exactly one task, at the end, with the status Todo and no start date, and
\* clears the input; nothing else changes the list, no existing task is
\* removed, moved or edited, and add-task touches neither localStorage nor
\* any spreadsheet call.
C24_TaskListOnlyGrows ==
    /\ [][\A data \in TaskDatas :
             ExtractSuccess(data) /\ TaskDataAccepted(data) =>
                 /\ Len(tasks') = Len(tasks) + 1
                 /\ LET new == tasks'[Len(tasks')]
                    IN  /\ new.name = data.name
                        /\ new.assignee = data.assignee
                        /\ new.dueDate = data.dueDate
                        /\ new.status = "Todo"
                        /\ new.startDate = NULL
                 /\ newTaskInput' = ""]_vars
    /\ [][tasks' # tasks =>
             \E data \in TaskDatas : ExtractSuccess(data) /\ TaskDataAccepted(data)]_vars
    /\ [][Len(tasks') >= Len(tasks) /\ SubSeq(tasks', 1, Len(tasks)) = tasks]_vars
    /\ [][HandleAddTask \/ ExtractAnswered => UNCHANGED <<net, gapi, storage, detail>>]_vars

\* two tasks were added after the seed tasks, in the order of their answers
C24_Witness ==
    /\ lastEvent.op = "ExtractSuccess"
    /\ Len(tasks) = Len(SeedTasks) + 2
    /\ SubSeq(tasks, 1, Len(SeedTasks)) = SeedTasks
    /\ tasks[Len(tasks)].status = "Todo"
    /\ tasks[Len(tasks)].startDate = NULL
    /\ tasks[Len(tasks) - 1].priority = "High Priority"
    /\ tasks[Len(tasks)].priority = NULL
    /\ newTaskInput = ""

(***************************************************************************)
(* Claims about the selection of suggestions.                              *)
(***************************************************************************)
\* the ids of the suggestions of the detail state d
SuggestionIds(d) == {d.suggestedSubTasks[i].id : i \in 1..Len(d.suggestedSubTasks)}

\* C25: in every state the selected ids are ids of the current suggestions;
\* the answer to a generation selects every suggestion; a toggle changes the
\* selection by the toggled id only and leaves the suggestions, and toggling
\* an id twice gives the selection back.
C25_SelectionWithinSuggestions ==
    /\ [](detail.selectedSubTasks \subseteq SuggestionIds(detail))
    /\ [](\A id \in SuggestionIds(detail) :
             Toggled(Toggled(detail.selectedSubTasks, id), id) = detail.selectedSubTasks)
    /\ [][\A items \in SeqsUpTo(SuggestedItems, MaxSuggestions) :
             GenerateSuccess(items) =>
                 /\ Len(detail'.suggestedSubTasks) = Len(items)
                 /\ Cardinality(SuggestionIds(detail')) = Len(items)
                 /\ detail'.selectedSubTasks = SuggestionIds(detail')]_vars
    /\ [][\A i \in 1..Len(detail.suggestedSubTasks) :
             HandleToggleSuggestedTask(i) =>
                 LET id == detail.suggestedSubTasks[i].id
                 IN  /\ detail'.suggestedSubTasks = detail.suggestedSubTasks
                     /\ id \in detail'.selectedSubTasks <=> id \notin detail.selectedSubTasks
                     /\ detail'.selectedSubTasks \ {id} = detail.selectedSubTasks \ {id}]_vars

\* of two suggestions the second was toggled off while the commit of both was
\* in flight
C25_Witness ==
    /\ lastEvent.op = "HandleToggleSuggestedTask"
    /\ lastEvent.arg = 2
    /\ Len(detail.suggestedSubTasks) = 2
    /\ detail.selectedSubTasks = {GenId(0)}
    /\ Len(net.appends) = 1
    /\ Len(net.appends[1].rows) = 2

\* the rows of the values.append call are those of suggestions of d
OwnBatch(call, d) ==
    \E ids \in SUBSET SuggestionIds(d) :
        LET IsIn(t) == t.id \in ids
        IN  call.rows = NewRows(SelectSeq(d.suggestedSubTasks, IsIn))

\* C26: while the detail view is shown, suggestions leave the suggestion set
\* only when a new generation is started, or when the append of a commit made
\* from these suggestions succeeds: the answer to a commit issued before a
\* newer generation leaves the newer suggestions.
C26_SuggestionsLeaveByOwnCommitOrNewGeneration ==
    [][/\ detail.suggestedSubTasks # <<>>
       /\ detail'.suggestedSubTasks # detail.suggestedSubTasks
       /\ View' = "TaskDetail"
       => \/ HandleGenerateSubTasks
          \/ /\ AppendSuccess
             /\ Head(net.appends).from = "selected"
             /\ OwnBatch(Head(net.appends), detail)]_vars

\* a commit is in flight and the suggestions shown are not those it was made
\* from: they came from a generation started after it
NewerSuggestionsWhileCommitting ==
    /\ View = "TaskDetail"
    /\ net.appends # <<>>
    /\ Head(net.appends).from = "selected"
    /\ detail.suggestedSubTasks # <<>>
    /\ ~OwnBatch(Head(net.appends), detail)

(***************************************************************************)
(* Claims about the sub-task list and the rows of the tab.                 *)
(***************************************************************************)
\* the detail view shows its list and no values.get, values.update or
\* values.append is in flight
Quiescent ==
    /\ View = "TaskDetail"
    /\ detail.error = NULL
    /\ net.fetch = "none"
    /\ net.appends = <<>>
    /\ gapi.writes = <<>>

\* the sub-task st shows the name and the status of its row of the rows sh,
\* as fetchSheetData reads them
ShowsItsRow(st, sh) ==
    /\ st.id - 1 \in 1..Len(sh)
    /\ st.name = OrElse(sh[st.id - 1].name, "")
    /\ st.status = OrElse(sh[st.id - 1].status, "Todo")

\* C27: when no request of the detail view is in flight (and no write was
\* rejected: none is in SpecSheet), every displayed sub-task shows the name
\* and the status of its row of the tab.
C27_QuiescentListShowsTheSheet ==
    Quiescent => \A k \in 1..Len(detail.subTasks) : ShowsItsRow(detail.subTasks[k], gapi.sheet)

\* the refetch after an add has just delivered rows that were read before a
\* write in flight was applied: nothing is in flight any more, and a sub-task
\* shows the value from before the edit
StaleRefetchShown ==
    /\ lastEvent.op = "FetchSuccess"
    /\ Quiescent
    /\ Len(detail.subTasks) = 2
    /\ ~ShowsItsRow(detail.subTasks[1], gapi.sheet)
    /\ ShowsItsRow(detail.subTasks[2], gapi.sheet)

(***************************************************************************)
(* Claims about the initialization.                                        *)
(***************************************************************************)
\* gapiReady stays true; the session becomes signed in by a token response
\* with an access token only, and only after initializeApis ran to its end;
\* after its catch block ran there is no token client, the sign-in button is
\* disabled, no token request is or gets in flight and the view stays
\* SignedOut
InitOutcomesAreFinal ==
    /\ [][gapiReady => gapiReady']_vars
    /\ [](bootPc = "done" <=> gapiReady)
    /\ [][~isSignedIn /\ isSignedIn' => TokenCallback(TRUE)]_vars
    /\ [](isSignedIn \/ authPending > 0 => tokenClient /\ bootPc = "done")
    /\ [](tokenClient => lastEvent.op # "InitFail")
    /\ [][lastEvent'.op = "InitFail" => InitFail]_vars
    /\ [](bootPc = "done" /\ ~tokenClient =>
             /\ View = "SignedOut"
             /\ ~CanSignIn
             /\ authPending = 0)
    /\ [][bootPc = "done" /\ ~tokenClient => ~tokenClient' /\ bootPc' = "done"]_vars

\* C28: the initialization leaves the Initializing view when the libraries
\* have loaded or failed to load, and what it leaves is final as
\* InitOutcomesAreFinal says.
C28_InitializationEndsAndGatesSignIn ==
    /\ <>gapiReady
    /\ InitOutcomesAreFinal

\* the client library failed to load: the page shows Initializing and
\* nothing is left to happen
StuckInitializing ==
    /\ bootPc = "stuck"
    /\ View = "Initializing"
    /\ ~tokenClient
    /\ error = NULL

\* the catch block of initializeApis ran: the sign-in prompt with its error
\* and a disabled button
InitFailedSignedOut ==
    /\ lastEvent.op = "InitFail"
    /\ View = "SignedOut"
    /\ error # NULL
    /\ ~CanSignIn

(***************************************************************************)
(* Claims about the busy flags of the assistant requests.                  *)
(***************************************************************************)
GenerateAnswered ==
    GenerateFail \/ \E items \in SeqsUpTo(SuggestedItems, MaxSuggestions) : GenerateSuccess(items)

\* the flags follow the requests of the hub and of the mounted detail view;
\* a request is issued by its handler only, with the flag false and a text
\* that is not blank, and a submit with a blank text changes nothing but
\* the record of the event
BusyFlagsFollowRequests ==
    /\ [](isLoading <=> extractPending)
    /\ [](detail.isGenerating <=> net.generate)
    /\ [][~extractPending /\ extractPending' =>
             HandleAddTask /\ ~isLoading /\ Trim(newTaskInput) # ""]_vars
    /\ [][~net.generate /\ net'.generate =>
             HandleGenerateSubTasks /\ ~detail.isGenerating /\ Trim(detail.aiGoalInput) # ""]_vars
    /\ [][HandleAddTask /\ Trim(newTaskInput) = "" =>
             UNCHANGED <<hubVars, detailVars, gapi>>]_vars
    /\ [][isLoading /\ ~isLoading' => ExtractAnswered]_vars

\* C29: BusyFlagsFollowRequests, and isGenerating, once true, stays true until
\* the answer to the generation, success or failure, is handled.
C29_BusyFlagsTrackAssistantRequests ==
    /\ BusyFlagsFollowRequests
    /\ [][detail.isGenerating /\ ~detail'.isGenerating => GenerateAnswered]_vars

\* the detail view was left while its generation was in flight: no flag says
\* so any more
GeneratingViewLeft ==
    /\ lastEvent.op = "HandleBackClick"
    /\ View = "TaskList"
    /\ ~detail.isGenerating
    /\ detail.aiGoalInput = ""

\* the add-task request and a generation are in flight together, each with
\* its flag
BothAssistantRequestsInFlight ==
    /\ View = "TaskDetail"
    /\ isLoading /\ extractPending
    /\ detail.isGenerating /\ net.generate

====
